---- MODULE Spec2Model ----
(***************************************************************************)
(* A model of the file-sorter classification-and-planning pipeline:        *)
(* the folder-action resolver (app/folder_policy.py), the rules classifier *)
(* (app/classifiers/rules.py), the AI adapters' folder advice              *)
(* (app/classifiers/ollama.py, openai.py), the catalog (app/db.py) and the *)
(* batch loop of the planner (app/planner.py).                             *)
(*                                                                         *)
(* Python strings are modelled as sequences of one-character strings, so   *)
(* that split, join, strip, lower, count and LIKE are computed and not     *)
(* assumed.  Python's None is the model value None.                        *)
(***************************************************************************)
EXTENDS Integers, Sequences, FiniteSets, TLC

None == "None"

(***************************************************************************)
(* Python str operations on sequences of characters.                       *)
(***************************************************************************)

\* The characters the model uses, in code-point order (ord()).
AsciiOrder ==
  << " ", "%", "*", ".", "/", "1",
     "A", "B", "C", "D", "E", "F", "G", "H", "I", "J", "K", "L", "M",
     "N", "O", "P", "Q", "R", "S", "T", "U", "V", "W", "X", "Y", "Z",
     "_",
     "a", "b", "c", "d", "e", "f", "g", "h", "i", "j", "k", "l", "m",
     "n", "o", "p", "q", "r", "s", "t", "u", "v", "w", "x", "y", "z",
     "{", "|", "}" >>

Chars == {AsciiOrder[i] : i \in 1..Len(AsciiOrder)}

\* ord(c), as the rank of c among the characters used
OrdTable == [c \in Chars |-> CHOOSE i \in 1..Len(AsciiOrder) : AsciiOrder[i] = c]

Ord(c) == OrdTable[c]

IsUpper(c) == Ord(c) >= Ord("A") /\ Ord(c) <= Ord("Z")

\* str.lower() of one character
LowerTable ==
  [c \in Chars |-> IF IsUpper(c) THEN AsciiOrder[Ord(c) + (Ord("a") - Ord("A"))] ELSE c]

LowerCh(c) == LowerTable[c]

\* str.lower()
str_lower(s) == [i \in 1..Len(s) |-> LowerCh(s[i])]

\* s < t for Python strings (lexicographic by code point)
RECURSIVE str_lt(_, _)
str_lt(s, t) ==
  IF t = <<>> THEN FALSE
  ELSE IF s = <<>> THEN TRUE
  ELSE IF Ord(Head(s)) < Ord(Head(t)) THEN TRUE
  ELSE IF Ord(Head(s)) > Ord(Head(t)) THEN FALSE
  ELSE str_lt(Tail(s), Tail(t))

\* s.count(ch)
str_count(s, ch) == Cardinality({i \in 1..Len(s) : s[i] = ch})

\* s.startswith(p), s.endswith(p)
str_startswith(s, p) == Len(p) <= Len(s) /\ SubSeq(s, 1, Len(p)) = p
str_endswith(s, p) == Len(p) <= Len(s) /\ SubSeq(s, Len(s) - Len(p) + 1, Len(s)) = p

\* p in s
str_contains(s, p) == \E i \in 0..(Len(s) - Len(p)) : SubSeq(s, i + 1, i + Len(p)) = p

\* s.rstrip(ch), s.lstrip(ch), s.strip(ch)
RECURSIVE str_rstrip(_, _)
str_rstrip(s, ch) ==
  IF s # <<>> /\ s[Len(s)] = ch THEN str_rstrip(SubSeq(s, 1, Len(s) - 1), ch) ELSE s

RECURSIVE str_lstrip(_, _)
str_lstrip(s, ch) ==
  IF s # <<>> /\ Head(s) = ch THEN str_lstrip(Tail(s), ch) ELSE s

str_strip(s, ch) == str_lstrip(str_rstrip(s, ch), ch)

\* s.split(ch): a sequence of strings, never empty
RECURSIVE str_split(_, _)
str_split(s, ch) ==
  IF \A i \in 1..Len(s) : s[i] # ch THEN << s >>
  ELSE LET k == CHOOSE i \in 1..Len(s) : s[i] = ch /\ \A j \in 1..(i - 1) : s[j] # ch
       IN  << SubSeq(s, 1, k - 1) >> \o str_split(SubSeq(s, k + 1, Len(s)), ch)

\* sep.join(parts)
RECURSIVE str_join(_, _)
str_join(parts, sep) ==
  IF parts = <<>> THEN <<>>
  ELSE IF Len(parts) = 1 THEN parts[1]
  ELSE parts[1] \o sep \o str_join(Tail(parts), sep)

SeqToSet(s) == {s[i] : i \in 1..Len(s)}

\* F(v), with v computed once (a local variable holding v)
With(v, F(_)) == CHOOSE r \in {F(x) : x \in {v}} : TRUE

Min(a, b) == IF a <= b THEN a ELSE b

(***************************************************************************)
(* app/folder_action.py                                                    *)
(***************************************************************************)

KEEP == "KEEP"
KEEP_PARENT == "KEEP_PARENT"
KEEP_EXCEPT == "KEEP_EXCEPT"
DISAGGREGATE == "DISAGGREGATE"

\* the members of the enum, in declaration order
FolderAction == << KEEP, KEEP_PARENT, KEEP_EXCEPT, DISAGGREGATE >>

\* FolderAction.value: the string each member carries
ActionValue(a) ==
  CASE a = KEEP -> << "k", "e", "e", "p" >>
    [] a = KEEP_PARENT -> << "k", "e", "e", "p", "_", "p", "a", "r", "e", "n", "t" >>
    [] a = KEEP_EXCEPT -> << "k", "e", "e", "p", "_", "e", "x", "c", "e", "p", "t" >>
    [] a = DISAGGREGATE -> << "d", "i", "s", "a", "g", "g", "r", "e", "g", "a", "t", "e" >>

ValueError == "ValueError"

\* FolderAction.from_string: the member, or ValueError when it raises
FolderAction_from_string(value) ==
  IF value = None \/ value = <<>> THEN ValueError
  ELSE
    LET normalized == str_lower(str_strip(value, " ")) IN
    IF normalized \in { << "m", "o", "v", "e", "_", "a", "s", "_", "u", "n", "i", "t" >>,
                        << "m", "o", "v", "e", "a", "s", "u", "n", "i", "t" >>,
                        << "u", "n", "i", "t" >> } THEN KEEP
    ELSE IF normalized \in { << "s", "t", "r", "i", "p" >>, ActionValue(DISAGGREGATE) }
      THEN DISAGGREGATE
    ELSE IF normalized \in { ActionValue(KEEP_PARENT),
                             << "k", "e", "e", "p", "p", "a", "r", "e", "n", "t" >>,
                             << "p", "a", "r", "e", "n", "t" >> } THEN KEEP_PARENT
    ELSE IF normalized \in { ActionValue(KEEP_EXCEPT),
                             << "k", "e", "e", "p", "e", "x", "c", "e", "p", "t" >> }
      THEN KEEP_EXCEPT
    ELSE IF \E i \in 1..Len(FolderAction) : ActionValue(FolderAction[i]) = normalized
      THEN FolderAction[CHOOSE i \in 1..Len(FolderAction) :
                          ActionValue(FolderAction[i]) = normalized]
    ELSE ValueError

FINAL == "final"
AI == "ai"

(***************************************************************************)
(* app/rules_models.py, app/classifiers/rules.py                           *)
(*                                                                         *)
(* A rule's regex is one of three shapes, compiled with re.IGNORECASE and  *)
(* applied with re.match (anchored at the start):                          *)
(*   starts ARG  ~  ARG        ends ARG  ~  .*ARG$       has ARG  ~  .*ARG *)
(* NoPattern is the pattern "" or "*" (no regex: anything matches).        *)
(***************************************************************************)

Pat(kind, arg) == [kind |-> kind, arg |-> arg]

NoPattern == Pat("none", <<>>)

\* regex.match(text) is not None
RegexMatch(pat, text) ==
  LET t == str_lower(text)
      a == str_lower(pat.arg)
  IN  CASE pat.kind = "starts" -> str_startswith(t, a)
        [] pat.kind = "ends" -> str_endswith(t, a)
        [] pat.kind = "has" -> str_contains(t, a)

Rule(path_pattern, mime_pattern, category_path, folder_action, requires_ai) ==
  [ path_pattern |-> path_pattern, mime_pattern |-> mime_pattern,
    category_path |-> category_path, folder_action |-> folder_action,
    requires_ai |-> requires_ai ]

\* CompiledRule.match(rel_path, mime) is not None
CompiledRule_match(rule, rel_path, mime) ==
  /\ rule.path_pattern # NoPattern => RegexMatch(rule.path_pattern, rel_path)
  /\ rule.mime_pattern # NoPattern => RegexMatch(rule.mime_pattern, mime)

\* a loop that goes on after a hit: the index of the last rule that matches
match_last_rule(rules, rel_path, mime) ==
  LET raw == IF str_startswith(rel_path, << "/" >>) THEN rel_path ELSE << "/" >> \o rel_path
      hits == {i \in 1..Len(rules) : CompiledRule_match(rules[i], raw, mime)}
  IN  IF hits = {} THEN 0 ELSE CHOOSE i \in hits : \A j \in hits : i >= j

\* RulesClassifier._match_rule: the index of the first rule that matches, 0 for None
RulesClassifier_match_rule(rules, rel_path, mime) ==
  LET raw == IF str_startswith(rel_path, << "/" >>) THEN rel_path ELSE << "/" >> \o rel_path
      hits == {i \in 1..Len(rules) : CompiledRule_match(rules[i], raw, mime)}
  IN  IF hits = {} THEN 0 ELSE CHOOSE i \in hits : \A j \in hits : i <= j

\* RulesClassifier.match(name, rel_path, mime): key = rel_path or name or ""
RulesClassifier_match(rules, name, rel_path, mime) ==
  LET key == IF rel_path # <<>> THEN rel_path ELSE name
  IN  RulesClassifier_match_rule(rules, key, mime)

(***************************************************************************)
(* app/classifiers/base.py: FolderActionResponse                           *)
(***************************************************************************)

Reason(tag, arg) == [tag |-> tag, arg |-> arg]

\* FolderActionResponse.decision(action, reason)
decision(action, reason) ==
  [action |-> action, is_final |-> TRUE, hint |-> None, reason |-> reason]

\* FolderActionResponse.delegate(hint, reason)
delegate(hint, reason) ==
  [action |-> None, is_final |-> FALSE, hint |-> hint, reason |-> reason]

\* no response: the loop over the children goes on
NoResponse == [action |-> None, is_final |-> FALSE, hint |-> None, reason |-> Reason("continue", <<>>)]

\* app/folder_action.py: FolderActionRequest
FolderActionRequest(folder_path, folder_name, children, total_files, rule_hint) ==
  [ folder_path |-> folder_path, folder_name |-> folder_name, children |-> children,
    total_files |-> total_files, rule_hint |-> rule_hint ]

\* one entry of FolderActionRequest.children (FolderSample.payload)
FileChild(name, mime, size) ==
  [name |-> name, type |-> "file", mime |-> mime, size |-> size, files_inside |-> 0]
DirChild(name, files_inside) ==
  [name |-> name, type |-> "dir", mime |-> << "*" >>, size |-> 0, files_inside |-> files_inside]

Star == << "*" >>

\* f"{request.folder_path.rstrip('/')}/{child_name}"
ChildPath(request, child) == str_rstrip(request.folder_path, "/") \o << "/" >> \o child.name

\* The body of the loop over request.children for one child:
\* the response it returns, or NoResponse when the loop goes on to the next child.
AdviseChild(rules, request, child) ==
  LET child_path == ChildPath(request, child) IN
  IF child.type = "dir" THEN
    LET dir_match == RulesClassifier_match(rules, child.name, child_path, Star)
        inside_match == RulesClassifier_match(rules, <<>>, child_path \o << "/" >>, Star)
    IN  IF \/ (dir_match # 0 /\ rules[dir_match].folder_action = KEEP_PARENT)
           \/ (inside_match # 0 /\ rules[inside_match].folder_action = KEEP_PARENT)
        THEN decision(KEEP, Reason("keep_parent", child.name))
        ELSE NoResponse
  ELSE IF child.type = "file" THEN
    LET file_match == RulesClassifier_match(rules, child.name, child_path, child.mime) IN
    IF file_match = 0 THEN NoResponse
    ELSE IF rules[file_match].folder_action = KEEP_PARENT
      THEN decision(KEEP, Reason("keep_parent", child.name))
    ELSE IF rules[file_match].folder_action # None /\ rules[file_match].requires_ai = FINAL
      THEN decision(rules[file_match].folder_action, Reason("rule:final", <<>>))
    ELSE IF rules[file_match].requires_ai = AI
      THEN delegate(rules[file_match].folder_action, Reason("rule:requires_ai", <<>>))
    ELSE NoResponse
  ELSE NoResponse

\* the "Check explicit folder rule" part and the final delegation
AdviseFolderRule(rules, request) ==
  LET m1 == RulesClassifier_match(rules, <<>>, request.folder_path, <<>>)
      folder_match ==
        IF m1 # 0 THEN m1
        ELSE RulesClassifier_match(rules, <<>>, request.folder_path \o << "/" >>, <<>>)
  IN  IF folder_match # 0 /\ rules[folder_match].folder_action # None
         /\ rules[folder_match].requires_ai = FINAL
        THEN decision(rules[folder_match].folder_action, Reason("rule:folder:final", <<>>))
      ELSE IF folder_match # 0 /\ rules[folder_match].requires_ai = AI
        THEN delegate(rules[folder_match].folder_action,
                      Reason("rule:folder:requires_ai", <<>>))
      ELSE delegate(DISAGGREGATE, Reason("rule:no_match", <<>>))

\* the loop over request.children from position i on, then the folder rule
RECURSIVE AdviseFrom(_, _, _)
AdviseFrom(rules, request, i) ==
  IF i > Len(request.children) THEN AdviseFolderRule(rules, request)
  ELSE With(AdviseChild(rules, request, request.children[i]),
            LAMBDA r : IF r # NoResponse THEN r ELSE AdviseFrom(rules, request, i + 1))

\* the folder rule consulted before the children: its final decision if it has one
folder_rule_first(rules, request) ==
  With(AdviseFolderRule(rules, request),
       LAMBDA r : IF r.is_final THEN r ELSE AdviseFrom(rules, request, 1))

\* RulesClassifier.advise_folder_action(request)
RulesClassifier_advise_folder_action(rules, request) == AdviseFrom(rules, request, 1)


(***************************************************************************)
(* app/classifiers/ollama.py, app/classifiers/openai.py:                   *)
(* advise_folder_action.  The backend's part in one call is the sequence   *)
(* of outcomes of the POSTs the adapter makes: an HTTP or decoding error,  *)
(* or a reply with its content.                                            *)
(***************************************************************************)

PostError == [kind |-> "error", content |-> <<>>]
PostReply(content) == [kind |-> "reply", content |-> content]

\* request.rule_hint or <default>
HintOr(request, default) == IF request.rule_hint # None THEN request.rule_hint ELSE default

\* an invalid reply answered with DISAGGREGATE, whatever the hint
parse_reply_no_hint(adapter, request, content) ==
  With(FolderAction_from_string(str_strip(content, " ")), LAMBDA action :
    IF action # ValueError
      THEN decision(action, Reason(adapter, << "ai_decision" >>))
      ELSE decision(DISAGGREGATE, Reason(adapter, << "fallback_to_hint" >>)))

\* the body of "try: action = FolderAction.from_string(out) ... except ValueError"
ParseReply(adapter, request, content) ==
  LET action == FolderAction_from_string(str_strip(content, " ")) IN
  IF action # ValueError
    THEN decision(action, Reason(adapter, << "ai_decision" >>))
    ELSE decision(HintOr(request, DISAGGREGATE), Reason(adapter, << "fallback_to_hint" >>))

\* the retry loop of OllamaClassifier.advise_folder_action from attempt number
\* `attempt` (0-based) on; outcomes[attempt + 1] is what that POST meets
RECURSIVE OllamaAttempts(_, _, _, _)
OllamaAttempts(request, retries, outcomes, attempt) ==
  IF attempt >= retries
    THEN decision(HintOr(request, DISAGGREGATE), Reason("ollama", << "error_fallback" >>))
  ELSE IF outcomes[attempt + 1].kind = "reply"
    THEN ParseReply("ollama", request, outcomes[attempt + 1].content)
  ELSE OllamaAttempts(request, retries, outcomes, attempt + 1)

\* OllamaClassifier.advise_folder_action(request), config.OLLAMA_RETRIES = retries;
\* client_fails: opening the httpx.Client raises (the outer except)
OllamaClassifier_advise_folder_action(request, retries, client_fails, outcomes) ==
  IF request.total_files = 0
    THEN decision(HintOr(request, KEEP), Reason("ollama", << "empty_folder" >>))
  ELSE IF client_fails
    THEN decision(HintOr(request, DISAGGREGATE), Reason("ollama", << "unavailable" >>))
  ELSE OllamaAttempts(request, retries, outcomes, 0)

\* OpenAIClassifier.advise_folder_action(request): one POST, no retry
OpenAIClassifier_advise_folder_action(request, client_fails, outcomes) ==
  IF request.total_files = 0
    THEN decision(HintOr(request, KEEP), Reason("openai", << "empty_folder" >>))
  ELSE IF ~client_fails /\ outcomes[1].kind = "reply"
    THEN ParseReply("openai", request, outcomes[1].content)
  ELSE decision(HintOr(request, DISAGGREGATE), Reason("openai", << "error" >>))

\* the number of POSTs the adapter makes in one call
PostsMade(adapter, request, retries, client_fails, outcomes) ==
  IF request.total_files = 0 \/ client_fails THEN 0
  ELSE IF adapter = "openai" THEN 1
  ELSE LET replies == {i \in 1..retries : outcomes[i].kind = "reply"}
       IN  IF replies = {} THEN retries ELSE CHOOSE i \in replies : \A j \in replies : i <= j

\* classifier.advise_folder_action(request) of the configured AI adapter
Adapter_advise_folder_action(adapter, request, retries, client_fails, outcomes) ==
  IF adapter = "openai"
    THEN OpenAIClassifier_advise_folder_action(request, client_fails, outcomes)
    ELSE OllamaClassifier_advise_folder_action(request, retries, client_fails, outcomes)


(***************************************************************************)
(* app/folder_policy.py                                                    *)
(*                                                                         *)
(* A dict is a sequence of entries in insertion order.  Paths are the      *)
(* absolute, normalised POSIX paths the scanner stores.                    *)
(***************************************************************************)

FOLDER_SAMPLE_LIMIT == 48

Slash == << "/" >>

\* PurePosixPath(p).name and PurePosixPath(p).parent.as_posix(), p absolute
PathName(p) == LET parts == str_split(p, "/") IN parts[Len(parts)]
PathParent(p) ==
  LET parts == str_split(p, "/")
      up == str_join(SubSeq(parts, 1, Len(parts) - 1), Slash)
  IN  IF up = <<>> THEN Slash ELSE up

FolderSample == [children |-> <<>>, total_files |-> 0]

\* FolderSample.add_child
add_child(sample, name, is_dir, mime, size) ==
  LET known == \E i \in 1..Len(sample.children) : sample.children[i].name = name
      entry == [ name |-> name, type |-> IF is_dir THEN "dir" ELSE "file",
                 mime |-> IF is_dir THEN Star ELSE mime, size |-> size,
                 file_count |-> IF is_dir THEN 0 ELSE 1 ]
      ch == IF known THEN sample.children ELSE Append(sample.children, entry)
  IN  [ sample EXCEPT !.children =
          [ i \in 1..Len(ch) |->
              IF is_dir /\ ch[i].name = name
                THEN [ch[i] EXCEPT !.file_count = @ + 1] ELSE ch[i] ] ]

\* position of folder_path among the keys of samples, 0 when absent
SampleIndex(samples, folder_path) ==
  IF \E i \in 1..Len(samples) : samples[i].folder = folder_path
    THEN CHOOSE i \in 1..Len(samples) : samples[i].folder = folder_path
    ELSE 0

\* the while loop of collect_folder_samples for one row, at ancestor `current`
RECURSIVE SampleAncestors(_, _, _, _, _)
SampleAncestors(samples, current, parts_from_current, mime, size) ==
  IF current = <<>> \/ current = Slash THEN samples
  ELSE
    LET at == SampleIndex(samples, current)
        have == IF at = 0
                  THEN Append(samples, [folder |-> current, sample |-> FolderSample])
                  ELSE samples
        k == IF at = 0 THEN Len(have) ELSE at
        counted == [have[k].sample EXCEPT !.total_files = @ + 1]
        is_subdir == Len(parts_from_current) > 1
        added == IF is_subdir
                   THEN add_child(counted, parts_from_current[1], TRUE, Star, 0)
                   ELSE add_child(counted, parts_from_current[1], FALSE, mime, size)
    IN  SampleAncestors([have EXCEPT ![k].sample = added], PathParent(current),
                        << PathName(current) >> \o parts_from_current, mime, size)

\* collect_folder_samples(rows), rows a sequence of (path, mime, size)
RECURSIVE collect_folder_samples_from(_, _)
collect_folder_samples_from(samples, rows) ==
  IF rows = <<>> THEN samples
  ELSE collect_folder_samples_from(
         SampleAncestors(samples, PathParent(rows[1].path), << PathName(rows[1].path) >>,
                         rows[1].mime, rows[1].size),
         Tail(rows))

collect_folder_samples(rows) == collect_folder_samples_from(<<>>, rows)

\* sorted(self.children.items()): ascending by name (the names are distinct keys)
RECURSIVE SortedChildren(_)
SortedChildren(children) ==
  IF children = <<>> THEN <<>>
  ELSE LET k == CHOOSE i \in 1..Len(children) :
                  \A j \in 1..Len(children) : j = i \/ str_lt(children[i].name, children[j].name)
       IN  << children[k] >> \o
             SortedChildren([i \in 1..(Len(children) - 1) |->
                               IF i < k THEN children[i] ELSE children[i + 1]])

\* FolderSample.payload(folder_path)
payload(sample, folder_path) ==
  LET sorted == SortedChildren(sample.children)
      listed == SubSeq(sorted, 1, Min(FOLDER_SAMPLE_LIMIT, Len(sorted)))
      children_list ==
        [ i \in 1..Len(listed) |->
            IF listed[i].type = "file"
              THEN FileChild(listed[i].name, listed[i].mime, listed[i].size)
              ELSE DirChild(listed[i].name, listed[i].file_count) ]
      split == str_split(str_rstrip(folder_path, "/"), "/")
      folder_name == IF str_contains(folder_path, Slash) THEN split[Len(split)] ELSE folder_path
  IN  [ folder_name |-> folder_name, folder_path |-> folder_path,
        children |-> children_list, total_files |-> sample.total_files,
        child_count |-> Len(sample.children) ]


\* the keys as they come, unsorted
insertion_order(keys) == keys

\* sorted(samples.keys(), key=lambda p: p.count("/")): a stable sort of the keys
RECURSIVE SortByDepthFrom(_, _)
SortByDepthFrom(keys, depth) ==
  IF \A i \in 1..Len(keys) : str_count(keys[i], "/") < depth THEN <<>>
  ELSE SelectSeq(keys, LAMBDA k : str_count(k, "/") = depth)
         \o SortByDepthFrom(keys, depth + 1)

sorted_by_depth(keys) == SortByDepthFrom(keys, 0)

\* decided.get(path)
DictGet(dict, key) == IF key \in DOMAIN dict THEN dict[key] ELSE None

\* no ancestor ever blocks
no_decided_parent(folder, decided) == <<>>

\* every decided ancestor blocks, whatever its action
any_decided_parent(folder, decided) ==
  LET parts == str_split(str_rstrip(folder, "/"), "/")
      blocking == {i \in 1..(Len(parts) - 1) :
                     str_join(SubSeq(parts, 1, i), Slash) \in DOMAIN decided}
  IN  IF blocking = {} THEN <<>>
      ELSE str_join(SubSeq(parts, 1, CHOOSE i \in blocking : \A j \in blocking : i <= j), Slash)

\* _get_decided_parent(folder, decided): the blocking parent's path; <<>> (falsy, as
\* the caller tests it) when there is none
get_decided_parent(folder, decided) ==
  LET parts == str_split(str_rstrip(folder, "/"), "/")
      parent_path(i) == str_join(SubSeq(parts, 1, i), Slash)
      blocking == {i \in 1..(Len(parts) - 1) : DictGet(decided, parent_path(i)) = KEEP}
  IN  IF blocking = {} THEN <<>>
      ELSE parent_path(CHOOSE i \in blocking : \A j \in blocking : i <= j)

\* os.path.normpath on a path that has no "." or ".." segment and no doubled "/"
os_path_normpath(path) ==
  LET cut == str_rstrip(path, "/") IN IF cut = <<>> /\ path # <<>> THEN Slash ELSE cut

\* re.compile(pattern, re.IGNORECASE).fullmatch(text), pattern a literal word
FullMatch(pattern, text) == str_lower(pattern) = str_lower(text)

\* [p for p in parts if p]
NonEmptyParts(parts) == SelectSeq(parts, LAMBDA x : x # <<>>)

\* _strip_sources(folder_path, sources, source_wrapper_pattern);
\* source_wrapper_pattern is <<>> for None
strip_sources(folder_path, sources, source_wrapper_pattern) ==
  LET norm_path == os_path_normpath(folder_path)
      root(i) == str_strip(sources[i], " ")
      norm_root(i) == os_path_normpath(root(i))
      used == {i \in 1..Len(sources) : root(i) # <<>>}
      under == {i \in used : str_startswith(norm_path, norm_root(i) \o Slash)}
      \* the root the loop ends with: the first of the longest ones
      best == CHOOSE i \in under :
                \A j \in under : \/ Len(norm_root(j)) < Len(norm_root(i))
                                 \/ (Len(norm_root(j)) = Len(norm_root(i)) /\ i <= j)
      \* os.path.relpath(folder_path, root)
      rel == SubSeq(norm_path, Len(norm_root(best)) + 2, Len(norm_path))
      best_rel == IF under = {} THEN folder_path ELSE Slash \o rel
      parts == NonEmptyParts(str_split(str_strip(best_rel, "/"), "/"))
      kept == IF parts # <<>> /\ source_wrapper_pattern # <<>>
                 /\ FullMatch(source_wrapper_pattern, parts[1])
                THEN Tail(parts) ELSE parts
  IN  IF \E i \in used : norm_path = norm_root(i) THEN Slash
      ELSE IF kept = <<>> THEN Slash
      ELSE Slash \o str_join(kept, Slash)

\* f"{classifier_name}:{action.value}:{reason}"
DecisionSource(classifier_name, action, reason) ==
  [classifier |-> classifier_name, action |-> ActionValue(action), reason |-> reason]

\* decision_source or "unknown"
DecisionUnknown == [classifier |-> "unknown", action |-> <<>>, reason |-> Reason("", <<>>)]

\* current_classifier.advise_folder_action(request) for the chain's entry `name`;
\* env holds the rule table, the AI adapter and what the backend answers
ChainAdvise(name, request, env) ==
  IF name = "rules"
    THEN RulesClassifier_advise_folder_action(env.rules, request)
    ELSE Adapter_advise_folder_action(env.adapter, request, env.retries,
                                      env.client_fails, env.outcomes)

\* the "Walk the chain" loop of _decide_folder_action from entry i on, and the
\* fallback after it; calls records each advise_folder_action call made
RECURSIVE WalkChain(_, _, _, _, _)
WalkChain(chain, i, request, env, calls) ==
  IF i > Len(chain) THEN
    LET action == HintOr(request, DISAGGREGATE) IN
    [ action |-> action,
      decision_source |-> DecisionSource("default", action, Reason("chain_exhausted", <<>>)),
      calls |-> calls ]
  ELSE
    With(ChainAdvise(chain[i], request, env), LAMBDA response :
      With(Append(calls, [classifier |-> chain[i], request |-> request,
                          response |-> response]), LAMBDA made :
        IF response.is_final /\ response.action # None THEN
          [ action |-> response.action,
            decision_source |-> DecisionSource(chain[i], response.action, response.reason),
            calls |-> made ]
        ELSE IF response.is_final THEN WalkChain(chain, i + 1, request, env, made)
        ELSE With([request EXCEPT !.rule_hint = response.hint], LAMBDA hinted :
               WalkChain(chain, i + 1, hinted, env, made))))

\* classifiers_chain: rules, then the AI classifier when there is one
classifiers_chain(env) ==
  (IF env.has_rules THEN << "rules" >> ELSE <<>>)
    \o (IF env.adapter # None THEN << "ai" >> ELSE <<>>)

\* the request _decide_folder_action builds
BuildRequest(folder, folder_sample, sources, source_wrapper_pattern) ==
  LET rel_folder == strip_sources(folder, sources, source_wrapper_pattern)
      pl == payload(folder_sample, rel_folder)
  IN  FolderActionRequest(pl.folder_path, pl.folder_name, pl.children, pl.total_files, None)

\* the chain walked with a delegation's hint left out of the next request
RECURSIVE WalkChainNoHint(_, _, _, _, _)
WalkChainNoHint(chain, i, request, env, calls) ==
  IF i > Len(chain) THEN
    [ action |-> HintOr(request, DISAGGREGATE),
      decision_source |-> DecisionSource("default", HintOr(request, DISAGGREGATE),
                                         Reason("chain_exhausted", <<>>)),
      calls |-> calls ]
  ELSE
    With(ChainAdvise(chain[i], request, env), LAMBDA response :
      With(Append(calls, [classifier |-> chain[i], request |-> request,
                          response |-> response]), LAMBDA made :
        IF response.is_final /\ response.action # None THEN
          [ action |-> response.action,
            decision_source |-> DecisionSource(chain[i], response.action, response.reason),
            calls |-> made ]
        ELSE WalkChainNoHint(chain, i + 1, request, env, made)))

decide_without_hint(folder, folder_sample, env, sources, source_wrapper_pattern) ==
  With(BuildRequest(folder, folder_sample, sources, source_wrapper_pattern),
       LAMBDA request : WalkChainNoHint(classifiers_chain(env), 1, request, env, <<>>))

\* _decide_folder_action(folder, folder_sample, rules, classifier, sources, decided,
\* source_wrapper_pattern).  A FolderSample is always truthy, so the "not
\* folder_sample" return is taken for None only, which no caller passes.
decide_folder_action(folder, folder_sample, env, sources, source_wrapper_pattern) ==
  With(BuildRequest(folder, folder_sample, sources, source_wrapper_pattern),
       LAMBDA request : WalkChain(classifiers_chain(env), 1, request, env, <<>>))


(***************************************************************************)
(* app/db.py: the catalog.  files maps a path to its row, folder_actions   *)
(* maps a folder_path to its row (both columns are the tables' keys).      *)
(***************************************************************************)

\* SQLite's  text LIKE pattern  (no ESCAPE): % is any run of characters, _ any one
\* character, and letters compare without regard to case
RECURSIVE sql_like(_, _)
sql_like(text, pattern) ==
  IF pattern = <<>> THEN text = <<>>
  ELSE IF Head(pattern) = "%"
    THEN \E k \in 0..Len(text) : sql_like(SubSeq(text, k + 1, Len(text)), Tail(pattern))
  ELSE IF text = <<>> THEN FALSE
  ELSE IF Head(pattern) = "_" \/ LowerCh(Head(pattern)) = LowerCh(Head(text))
    THEN sql_like(Tail(text), Tail(pattern))
  ELSE FALSE

\* the subquery with the folder's own path as the only pattern
under_kept_exact(fa, path) ==
  \E folder_path \in DOMAIN fa :
    /\ fa[folder_path].action = ActionValue(KEEP)
    /\ sql_like(path, folder_path)

\* the NOT EXISTS subquery of select_unclassified for the row at `path`
UnderKeptFolder(fa, path) ==
  \E folder_path \in DOMAIN fa :
    /\ fa[folder_path].action = ActionValue(KEEP)
    /\ \/ sql_like(path, folder_path \o << "/", "%" >>)
       \/ sql_like(path, folder_path)

\* the WHERE clause of select_unclassified
Unclassified(f, fa) ==
  { path \in DOMAIN f :
      /\ f[path].category = None
      /\ f[path].hash # None
      /\ f[path].status = "scanned"
      /\ ~UnderKeptFolder(fa, path) }

\* ORDER BY length(path) - length(replace(path, '/', '')), path
RowBefore(p, q) ==
  \/ str_count(p, "/") < str_count(q, "/")
  \/ (str_count(p, "/") = str_count(q, "/") /\ str_lt(p, q))

RECURSIVE OrderRows(_)
OrderRows(paths) ==
  IF paths = {} THEN <<>>
  ELSE LET first == CHOOSE p \in paths : \A q \in paths : q = p \/ RowBefore(p, q)
       IN  << first >> \o OrderRows(paths \ {first})

\* Database.select_unclassified(limit): rows (path, mime, size); a negative limit
\* stands for limit=None
select_unclassified(f, fa, limit) ==
  LET ordered == OrderRows(Unclassified(f, fa))
      taken == IF limit < 0 THEN ordered ELSE SubSeq(ordered, 1, Min(limit, Len(ordered)))
  IN  [ i \in 1..Len(taken) |->
          [path |-> taken[i], mime |-> f[taken[i]].mime, size |-> f[taken[i]].size] ]

\* Database.save_folder_actions(actions, decisions) at time `timestamp`:
\* INSERT OR REPLACE of one row per entry of actions
save_folder_actions(fa, new_actions, new_decisions, timestamp) ==
  [ folder_path \in DOMAIN fa \cup DOMAIN new_actions |->
      IF folder_path \in DOMAIN new_actions
        THEN [ action |-> new_actions[folder_path],
               decision_source |-> IF folder_path \in DOMAIN new_decisions
                                     THEN new_decisions[folder_path]
                                     ELSE DecisionUnknown,
               decided_at |-> timestamp ]
        ELSE fa[folder_path] ]

\* Database.get_folder_actions(): folder_path -> action
get_folder_actions(fa) == [folder_path \in DOMAIN fa |-> fa[folder_path].action]

\* Database.bulk_insert(rows): INSERT OR IGNORE
bulk_insert(f, new_rows) ==
  [ path \in DOMAIN f \cup DOMAIN new_rows |->
      IF path \in DOMAIN f THEN f[path] ELSE new_rows[path] ]

\* Database.update_category_dest(rows): UPDATE files SET category, dest WHERE path
update_category_dest(f, updates) ==
  [ path \in DOMAIN f |->
      IF path \in DOMAIN updates
        THEN [f[path] EXCEPT !.category = updates[path].category, !.dest = updates[path].dest]
        ELSE f[path] ]


(***************************************************************************)
(* The inputs the model draws from.                                        *)
(***************************************************************************)

\* the largest batch_size tried
MaxBatchSize == 2

\* config.OLLAMA_RETRIES (its default)
OLLAMA_RETRIES == 3

\* cfg.SOURCES: one source root, /s
SOURCES == << << "/", "s" >> >>

\* cfg.SOURCE_WRAPPER_REGEX: unset
SOURCE_WRAPPER_REGEX == <<>>

\* the files a scan can find under the source root: path -> row as bulk_insert gets it
\*   /s/p/.git/h   /s/p/a.c   /s/d/b
ScanRow(mime) ==
  [ size |-> 1, mime |-> mime, hash |-> << "h" >>, category |-> None, dest |-> None,
    status |-> "scanned" ]

Disk ==
  ( << "/", "s", "/", "p", "/", ".", "g", "i", "t", "/", "h" >> :> ScanRow(<< "t" >>) )
  @@ ( << "/", "s", "/", "p", "/", "a", ".", "c" >> :> ScanRow(<< "t" >>) )
  @@ ( << "/", "s", "/", "d", "/", "b" >> :> ScanRow(<< "b" >>) )

\* rule tables (rules.csv) the planner runs with
RulesMarker ==
  << Rule(Pat("ends", << "/", ".", "g", "i", "t" >>), NoPattern, "Software", KEEP_PARENT, FINAL),
     Rule(NoPattern, NoPattern, "Unknown", DISAGGREGATE, AI) >>

RulesKeepExcept ==
  << Rule(Pat("ends", << "/", "p" >>), NoPattern, "Documents", KEEP_EXCEPT, FINAL),
     Rule(Pat("ends", << ".", "c" >>), NoPattern, "Code", None, AI) >>

PlannerRuleTables == { <<>>, RulesMarker, RulesKeepExcept }

\* what the backend does during one advise call of the planner's adapter
PlannerOutcomes ==
  { [i \in 1..OLLAMA_RETRIES |-> PostReply(ActionValue(a))] : a \in {KEEP, DISAGGREGATE} }
    \cup { [i \in 1..OLLAMA_RETRIES |-> PostError] }


(***************************************************************************)
(* State.                                                                  *)
(***************************************************************************)

VARIABLES
  files,               \* catalog table files: path -> row
  folder_actions,      \* catalog table folder_actions: folder_path -> row
  folder_hashes,       \* catalog table folder_hashes: folder_path -> row
  now,                 \* int(time.time()) of the last save_folder_actions
  rules,               \* RulesClassifier.rules, the compiled rule table
  advisor,             \* the AI adapter the resolver is given, or None
  batch_size,          \* classify_and_plan's batch_size
  pc,                  \* where classify_and_plan stands
  rows,                \* the batch: what select_unclassified returned
  folder_samples,      \* collect_folder_samples(rows)
  sorted_folders,      \* build_folder_action_map: the folders still to visit
  actions,             \* build_folder_action_map: actions
  decisions,           \* build_folder_action_map: decisions
  calls,               \* the advise_folder_action calls made in this batch, in order
  persisted_actions,   \* db.get_folder_actions() as read in this batch
  merged_action_map,   \* the map the batch gives the FileNodeBuilder
  request,             \* the FolderActionRequest of the call under study
  backend,             \* what the backend does during that call
  response,            \* the FolderActionResponse returned
  outcome,             \* what _decide_folder_action returned
  clock,               \* time.time() and loop.time(), in ticks
  workers,             \* MultiplexedClassifier.workers
  tasks,               \* the calls in progress: where each stands, and its locals
  step,                \* what the last step of a call did (selection, return, raise)
  sem,                 \* the adapter's semaphore: permits left
  throttle_lock,       \* the adapter's _throttle_lock: "held", or None
  last_request_at,     \* the adapter's _last_request_at
  settings,            \* the adapter's configuration
  file_node,           \* the FileNode build_destination is given
  destination          \* what build_destination returned

catalogVars == << files, folder_actions, now >>
configVars == << rules, advisor, batch_size >>
batchVars == << pc, rows, folder_samples, sorted_folders, actions, decisions, calls,
                persisted_actions, merged_action_map >>
callVars == << request, backend, response, outcome >>
serviceVars ==
  << clock, workers, tasks, step, sem, throttle_lock, last_request_at, settings >>
mediaVars == << file_node, destination >>

vars == << catalogVars, folder_hashes, configVars, batchVars, callVars, serviceVars, mediaVars >>

EmptyMap == [x \in {} |-> None]

NoRequest == FolderActionRequest(<<>>, <<>>, <<>>, 0, None)
NoBackend == [retries |-> 0, client_fails |-> FALSE, outcomes |-> <<>>]
NoOutcome == [action |-> None, decision_source |-> DecisionUnknown, calls |-> <<>>]

\* no call under study
CallIdle ==
  /\ request = NoRequest
  /\ backend = NoBackend
  /\ response = NoResponse
  /\ outcome = NoOutcome

\* no batch in progress
BatchIdle ==
  /\ rows = <<>>
  /\ folder_samples = <<>>
  /\ sorted_folders = <<>>
  /\ actions = EmptyMap
  /\ decisions = EmptyMap
  /\ calls = <<>>
  /\ persisted_actions = EmptyMap
  /\ merged_action_map = EmptyMap

\* no multiplexer and no adapter call in progress
NoStep == [kind |-> "none"]

NoSettings == [kind |-> "none"]

ServiceIdle ==
  /\ clock = 0
  /\ workers = <<>>
  /\ tasks = <<>>
  /\ step = NoStep
  /\ sem = 0
  /\ throttle_lock = None
  /\ last_request_at = 0
  /\ settings = NoSettings

\* no destination under study
MediaIdle ==
  /\ file_node = <<>>
  /\ destination = <<>>

\* an empty catalog (Database._ensure_schema on a fresh file)
CatalogEmpty ==
  /\ files = EmptyMap
  /\ folder_actions = EmptyMap
  /\ now = 0

(***************************************************************************)
(* app/folders.py: FolderAnalyzer, and the folder_hashes table of          *)
(* app/db.py.  A hexdigest is modelled by the text it digests (blake3 is   *)
(* taken to be free of collisions), behind a "#" so that it is never ''.   *)
(***************************************************************************)

\* _all_ancestors(p): the parent of p and every folder above it, the root left out
\* (for an absolute, normalised p: what stands before each "/" of p but the first)
all_ancestors(p) ==
  { SubSeq(p, 1, i - 1) : i \in { k \in 2..Len(p) : p[k] = "/" } }

\* str(file_path.relative_to(anc)) for an ancestor anc of file_path
relative_to(file_path, anc) == SubSeq(file_path, Len(anc) + 2, Len(file_path))

\* Database.iter_all_files_for_folder_hashing: the paths it yields
HashedFiles(f) == { path \in DOMAIN f : f[path].status = "scanned" }

\* every order in which the paths of S can be read
RECURSIVE Orders(_)
Orders(S) ==
  IF S = {} THEN { <<>> }
  ELSE UNION { { << path >> \o order : order \in Orders(S \ {path}) } : path \in S }

\* paths_map[folder] after the rows were read in `order`: (rel, fhash or "", size)
FolderItems(f, order, folder) ==
  LET under == SelectSeq(order, LAMBDA path : folder \in all_ancestors(path))
  IN  [ i \in 1..Len(under) |->
          [ rel |-> relative_to(under[i], folder),
            fh |-> IF f[under[i]].hash = None THEN <<>> ELSE f[under[i]].hash,
            size |-> f[under[i]].size ] ]

\* the items as they were read
items_unsorted(items) == items

\* items.sort(key=lambda t: t[0]): a stable sort by the relative path
RECURSIVE items_sort(_)
items_sort(items) ==
  IF items = <<>> THEN <<>>
  ELSE LET k == CHOOSE i \in 1..Len(items) :
                  \A j \in 1..Len(items) :
                    /\ ~str_lt(items[j].rel, items[i].rel)
                    /\ items[j].rel = items[i].rel => i <= j
       IN  << items[k] >>
             \o items_sort(SubSeq(items, 1, k - 1) \o SubSeq(items, k + 1, Len(items)))

\* _hash_folder_text(lines): the digest of line + "\n" for every line
RECURSIVE hash_folder_text(_)
hash_folder_text(lines) ==
  IF lines = <<>> THEN << "#" >>
  ELSE hash_folder_text(SubSeq(lines, 1, Len(lines) - 1))
         \o lines[Len(lines)] \o << "\n" >>

RECURSIVE SumSizes(_)
SumSizes(items) == IF items = <<>> THEN 0 ELSE Head(items).size + SumSizes(Tail(items))

\* the row compute_folder_hashes builds for a folder: (fh, file_count, byte_size)
FolderHashRow(items) ==
  With(items_sort(items),
       LAMBDA sorted :
         [ folder_hash |->
             hash_folder_text([ i \in 1..Len(sorted) |->
                                  sorted[i].rel \o << "|" >> \o sorted[i].fh ]),
           file_count |-> Len(items),
           byte_size |-> SumSizes(items) ])

\* FolderAnalyzer.compute_folder_hashes() when the rows are read in `order`, with
\* Database.upsert_folder_hashes: one row per folder of paths_map, the others kept
compute_folder_hashes(fh, f, order) ==
  LET folders == UNION { all_ancestors(order[i]) : i \in 1..Len(order) }
  IN  [ folder \in DOMAIN fh \cup folders |->
          IF folder \in folders THEN FolderHashRow(FolderItems(f, order, folder))
          ELSE fh[folder] ]

\* Database.select_duplicate_folders(): (folder_hash, paths) for every hash that is
\* neither NULL nor '' and has more than one folder
select_duplicate_folders(fh) ==
  LET hashes == { x \in { fh[folder].folder_hash : folder \in DOMAIN fh } :
                    x # None /\ x # <<>> }
      paths(h) == { folder \in DOMAIN fh : fh[folder].folder_hash = h }
  IN  { << h, paths(h) >> : h \in { x \in hashes : Cardinality(paths(x)) > 1 } }

(***************************************************************************)
(* app/planner.py: Planner.classify_and_plan, one batch after another.     *)
(***************************************************************************)

AdapterKinds == {"ollama", "openai"}

Init ==
  /\ ServiceIdle
  /\ MediaIdle
  /\ CatalogEmpty
  /\ rules \in PlannerRuleTables
  /\ advisor \in {None} \cup AdapterKinds
  /\ batch_size \in 1..MaxBatchSize
  /\ folder_hashes = EmptyMap
  /\ pc = "done"
  /\ BatchIdle
  /\ CallIdle

\* a scan before a run: bulk_insert of files found on disk (INSERT OR IGNORE) and
\* compute_folder_hashes over the rows in the order the catalog yields them, then
\* classify_and_plan starts
Scan ==
  /\ pc = "done"
  /\ \E found \in SUBSET (DOMAIN Disk) :
       /\ found \ DOMAIN files # {}
       /\ files' = bulk_insert(files, [path \in found |-> Disk[path]])
  /\ \E order \in Orders(HashedFiles(files')) :
       folder_hashes' = compute_folder_hashes(folder_hashes, files', order)
  /\ pc' = "select"
  /\ UNCHANGED << folder_actions, now, configVars, rows, folder_samples, sorted_folders,
                  actions, decisions, calls, persisted_actions, merged_action_map, callVars,
                  serviceVars, mediaVars >>

\* rows = select_unclassified(batch_size); nothing left: the loop ends.  Otherwise
\* the samples are collected, the persisted actions read, and
\* build_folder_action_map starts on the folders sorted by depth.
SelectBatch ==
  /\ pc = "select"
  /\ LET selected == select_unclassified(files, folder_actions, batch_size)
         samples == collect_folder_samples(selected)
     IN  IF selected = <<>>
           THEN /\ pc' = "done"
                /\ UNCHANGED << rows, folder_samples, sorted_folders, actions, decisions,
                                calls, persisted_actions, merged_action_map >>
           ELSE /\ pc' = "resolve"
                /\ rows' = selected
                /\ folder_samples' = samples
                /\ persisted_actions' = get_folder_actions(folder_actions)
                /\ sorted_folders' =
                     sorted_by_depth([i \in 1..Len(samples) |-> samples[i].folder])
                /\ actions' = EmptyMap
                /\ decisions' = EmptyMap
                /\ calls' = <<>>
                /\ merged_action_map' = EmptyMap
  /\ UNCHANGED << catalogVars, folder_hashes, configVars, callVars,
                  serviceVars, mediaVars >>

\* what the chain is walked with for one folder
ChainEnv(outcomes) ==
  [ rules |-> rules, has_rules |-> TRUE, adapter |-> advisor, retries |-> OLLAMA_RETRIES,
    client_fails |-> FALSE, outcomes |-> outcomes ]

\* one iteration of "for folder in sorted_folders" of build_folder_action_map
EvaluateFolder ==
  /\ pc = "resolve"
  /\ sorted_folders # <<>>
  /\ LET folder == Head(sorted_folders)
         blocking_parent == get_decided_parent(folder, actions)
         folder_sample == folder_samples[SampleIndex(folder_samples, folder)].sample
     IN  IF blocking_parent # <<>>
           THEN UNCHANGED << actions, decisions, calls >>
           ELSE \E outcomes \in PlannerOutcomes :
                \E decided \in { decide_folder_action(folder, folder_sample,
                                                      ChainEnv(outcomes), SOURCES,
                                                      SOURCE_WRAPPER_REGEX) } :
                      /\ actions' = (folder :> decided.action) @@ actions
                      /\ decisions' = (folder :> decided.decision_source) @@ decisions
                      /\ calls' = calls \o [ i \in 1..Len(decided.calls) |->
                                               [ folder |-> folder,
                                                 classifier |-> decided.calls[i].classifier,
                                                 rule_hint |-> decided.calls[i].request.rule_hint ] ]
  /\ sorted_folders' = Tail(sorted_folders)
  /\ UNCHANGED << catalogVars, folder_hashes, configVars, pc, rows, folder_samples,
                  persisted_actions,
                  merged_action_map, callVars,
                  serviceVars, mediaVars >>

\* the category one() gives a row (its rule's category, else what the classifier says)
FileCategory(row) ==
  LET m == RulesClassifier_match(rules, PathName(row.path), row.path, row.mime)
  IN  IF m # 0 THEN rules[m].category_path ELSE "Unknown"

\* a merge that leaves out what the batch resolved
persisted_only(persisted, new_folder_action_map) ==
  LET parsed == { folder \in DOMAIN persisted :
                    FolderAction_from_string(persisted[folder]) # ValueError }
  IN  [ folder \in parsed |-> FolderAction_from_string(persisted[folder]) ]

\* persisted actions parsed by FolderAction.from_string (a ValueError drops the
\* entry), then merged_action_map.update(new_folder_action_map)
MergeActions(persisted, new_folder_action_map) ==
  LET parsed == { folder \in DOMAIN persisted :
                    FolderAction_from_string(persisted[folder]) # ValueError }
  IN  [ folder \in parsed \cup DOMAIN new_folder_action_map |->
          IF folder \in DOMAIN new_folder_action_map
            THEN new_folder_action_map[folder]
            ELSE FolderAction_from_string(persisted[folder]) ]

\* the rest of the batch once build_folder_action_map has returned: the new actions
\* are saved, merged with the persisted ones, and the rows' categories and
\* destinations written
PlanBatch ==
  /\ pc = "resolve"
  /\ sorted_folders = <<>>
  /\ IF DOMAIN actions # {}
       THEN /\ now' = now + 1
            /\ folder_actions' =
                 save_folder_actions(folder_actions,
                                     [f \in DOMAIN actions |-> ActionValue(actions[f])],
                                     decisions, now + 1)
       ELSE UNCHANGED << folder_actions, now >>
  /\ merged_action_map' = MergeActions(persisted_actions, actions)
  /\ files' = update_category_dest(files,
                [ path \in {rows[i].path : i \in 1..Len(rows)} |->
                    [ category |-> FileCategory(CHOOSE r \in SeqToSet(rows) : r.path = path),
                      dest |-> "planned" ] ])
  /\ pc' = "select"
  /\ UNCHANGED << folder_hashes, configVars, rows, folder_samples, sorted_folders, actions,
                  decisions,
                  calls, persisted_actions, callVars,
                  serviceVars, mediaVars >>

Next == Scan \/ SelectBatch \/ EvaluateFolder \/ PlanBatch

Spec == Init /\ [][Next]_vars

(***************************************************************************)
(* Properties of build_folder_action_map and of the batch loop.            *)
(***************************************************************************)

\* a is a proper ancestor of the folder f
IsProperAncestor(a, f) == Len(a) < Len(f) /\ SubSeq(f, 1, Len(a) + 1) = a \o << "/" >>

SampledFolders == {folder_samples[i].folder : i \in 1..Len(folder_samples)}

\* the sampled folders the loop of build_folder_action_map has been through
VisitedFolders == SampledFolders \ SeqToSet(sorted_folders)

HasKeepAncestor(f) ==
  \E a \in DOMAIN actions : IsProperAncestor(a, f) /\ actions[a] = KEEP

CalledFor(f) == {i \in 1..Len(calls) : calls[i].folder = f}

\* C1: a sampled folder with a proper ancestor decided KEEP gets no entry in the
\* action map, and no classifier of the chain (the AI advisor included) is called
\* for it.
C1_KeepAncestorBlocks ==
  \A f \in VisitedFolders :
    HasKeepAncestor(f) => f \notin DOMAIN actions /\ CalledFor(f) = {}

\* a folder under a KEEP folder has been passed over while an AI advisor is configured
C1_Witness ==
  /\ advisor # None
  /\ \E f \in VisitedFolders : HasKeepAncestor(f) /\ f \notin DOMAIN actions

\* C2: folders are evaluated in depth-ascending order: whenever the chain is
\* consulted for a folder B, it has been consulted before for every sampled proper
\* ancestor A of B, and A's action is recorded.
C2_ParentsBeforeChildren ==
  \A j \in 1..Len(calls) :
    \A a \in SampledFolders :
      IsProperAncestor(a, calls[j].folder)
        => a \in DOMAIN actions /\ \E i \in 1..(j - 1) : calls[i].folder = a

\* the chain has been consulted for a folder and then for a descendant of it
C2_Witness ==
  \E i, j \in 1..Len(calls) :
    i < j /\ IsProperAncestor(calls[i].folder, calls[j].folder)

\* C3: a sampled folder none of whose ancestors is decided KEEP is evaluated by the
\* classifier chain and gets its own entry in the action map.
C3_UnblockedFolderDecided ==
  \A f \in VisitedFolders :
    ~HasKeepAncestor(f) => f \in DOMAIN actions /\ CalledFor(f) # {}

\* a folder below a DISAGGREGATE folder and a KEEP_EXCEPT folder has its own entry
C3_Witness ==
  \E f \in VisitedFolders :
    /\ f \in DOMAIN actions
    /\ \E a \in DOMAIN actions : IsProperAncestor(a, f) /\ actions[a] = KEEP_EXCEPT
    /\ \E a \in DOMAIN actions : IsProperAncestor(a, f) /\ actions[a] = DISAGGREGATE

\* C8: when a folder has a persisted action and the batch derives an action for it
\* again, the persisted action is the one the batch uses for path synthesis and the
\* one that remains stored.
C8_PersistedTakesPrecedence ==
  \A f \in DOMAIN persisted_actions \cap DOMAIN actions \cap DOMAIN merged_action_map :
    /\ merged_action_map[f] = FolderAction_from_string(persisted_actions[f])
    /\ folder_actions[f].action = persisted_actions[f]

\* C9: a folder's action is decided once: a batch never passes a folder that has a
\* persisted record to the AI advisor, and no step writes an existing row again.
C9_FolderDecidedOnce ==
  [][ /\ \A i \in 1..Len(calls') :
           calls'[i].classifier = "ai" => calls'[i].folder \notin DOMAIN persisted_actions'
      /\ \A f \in DOMAIN folder_actions : folder_actions'[f] = folder_actions[f] ]_vars


(***************************************************************************)
(* RulesClassifier.advise_folder_action on its own: a rule table and a     *)
(* request are drawn, and the classifier is asked once.                    *)
(***************************************************************************)

\* the children a request for the folder /p can list, in the order payload() gives
\* them (ascending by name): .git/  R  a.c  nm/
AdviceChildren ==
  << DirChild(<< ".", "g", "i", "t" >>, 1),
     FileChild(<< "R" >>, << "t" >>, 1),
     FileChild(<< "a", ".", "c" >>, << "t" >>, 1),
     DirChild(<< "n", "m" >>, 1) >>

AdviceRequests ==
  { FolderActionRequest(<< "/", "p" >>, << "p" >>, SelectSeq(AdviceChildren, LAMBDA c : c \in kept),
                        Cardinality(kept), None) :
      kept \in SUBSET SeqToSet(AdviceChildren) }

\* rule tables: the two marker rules (a directory named .git; anything inside nm/),
\* then optionally a rule for .c files, a rule for the folder /p, and a catch-all
MarkerRules ==
  << Rule(Pat("ends", << "/", ".", "g", "i", "t" >>), NoPattern, "Software", KEEP_PARENT, FINAL),
     Rule(Pat("ends", << "/", "n", "m", "/" >>), NoPattern, "Software", KEEP_PARENT, FINAL) >>

FileRules ==
  { <<>> } \cup
  { << Rule(Pat("ends", << ".", "c" >>), Pat("starts", << "t" >>), "Code", a, r) >> :
      a \in {None, KEEP_PARENT, DISAGGREGATE}, r \in {FINAL, AI} }

FolderRules ==
  { <<>> } \cup
  { << Rule(Pat("ends", << "/", "p" >>), NoPattern, "Documents", a, r) >> :
      a \in {None, DISAGGREGATE, KEEP_EXCEPT}, r \in {FINAL, AI} }

CatchAllRules == { <<>>, << Rule(NoPattern, NoPattern, "Unknown", DISAGGREGATE, AI) >> }

AdviceRuleTables ==
  { MarkerRules \o f \o d \o c : f \in FileRules, d \in FolderRules, c \in CatchAllRules }

InitRules ==
  /\ ServiceIdle
  /\ MediaIdle
  /\ CatalogEmpty
  /\ BatchIdle
  /\ rules \in AdviceRuleTables
  /\ advisor = None
  /\ batch_size = 1
  /\ folder_hashes = EmptyMap
  /\ pc = "call"
  /\ request \in AdviceRequests
  /\ backend = NoBackend
  /\ response = NoResponse
  /\ outcome = NoOutcome

\* rules_classifier.advise_folder_action(request)
AdviseRules ==
  /\ pc = "call"
  /\ response' = RulesClassifier_advise_folder_action(rules, request)
  /\ pc' = "returned"
  /\ UNCHANGED << catalogVars, folder_hashes, configVars, rows, folder_samples,
                  sorted_folders, actions,
                  decisions, calls, persisted_actions, merged_action_map, request, backend,
                  outcome,
                  serviceVars, mediaVars >>

NextRules == AdviseRules

SpecRules == InitRules /\ [][NextRules]_vars

\* the child's path as a rule sees it: the folder's path, a slash, the child's name
MarkerPath(child) == request.folder_path \o << "/" >> \o child.name

\* the first rule of the table matching the path (and the mime, for a file), 0 if none
FirstRule(path, mime) ==
  LET fits(i) ==
        /\ rules[i].path_pattern # NoPattern => RegexMatch(rules[i].path_pattern, path)
        /\ rules[i].mime_pattern # NoPattern => RegexMatch(rules[i].mime_pattern, mime)
      hits == {i \in 1..Len(rules) : fits(i)}
  IN  IF hits = {} THEN 0 ELSE CHOOSE i \in hits : \A j \in hits : i <= j

IsKeepParent(i) == i # 0 /\ rules[i].folder_action = KEEP_PARENT

\* the child matches a rule whose folder_action is KEEP_PARENT
IsMarkerChild(child) ==
  IF child.type = "dir"
    THEN \/ IsKeepParent(FirstRule(MarkerPath(child), << "*" >>))
         \/ IsKeepParent(FirstRule(MarkerPath(child) \o << "/" >>, << "*" >>))
    ELSE IsKeepParent(FirstRule(MarkerPath(child), child.mime))

MarkerPositions == {i \in 1..Len(request.children) : IsMarkerChild(request.children[i])}

\* C5: whenever a direct child of the folder matches a KEEP_PARENT rule, the rules
\* classifier returns a final KEEP decision for the folder, whatever the other
\* children are and wherever the marker child sits among them.
C5_MarkerForcesKeep ==
  (pc = "returned" /\ MarkerPositions # {})
    => response.is_final /\ response.action = KEEP

\* the folder /p matches a rule of its own that is final and says something else
\* than KEEP
FolderRuleConflicts ==
  LET i == FirstRule(request.folder_path, <<>>)
  IN  i # 0 /\ rules[i].requires_ai = FINAL /\ rules[i].folder_action \notin {None, KEEP}

FolderRuleAction == rules[FirstRule(request.folder_path, <<>>)].folder_action

ReplyContents ==
  { << "k", "e", "e", "p" >>, << " ", "K", "e", "e", "p", " " >>,
    << "p", "a", "r", "e", "n", "t" >>, << "s", "t", "r", "i", "p" >>, << "x" >>, <<>> }

PostOutcomes == {PostError} \cup {PostReply(c) : c \in ReplyContents}

RuleHints == {None} \cup SeqToSet(FolderAction)

AdapterRequests ==
  { FolderActionRequest(<< "/", "p" >>, << "p" >>, << FileChild(<< "R" >>, << "t" >>, 1) >>, n, h) :
      n \in {0, 1}, h \in RuleHints }

InitAdapter ==
  /\ ServiceIdle
  /\ MediaIdle
  /\ CatalogEmpty
  /\ BatchIdle
  /\ rules = <<>>
  /\ advisor \in AdapterKinds
  /\ batch_size = 1
  /\ folder_hashes = EmptyMap
  /\ pc = "call"
  /\ request \in AdapterRequests
  /\ backend \in [ retries : {OLLAMA_RETRIES}, client_fails : BOOLEAN,
                    outcomes : [1..OLLAMA_RETRIES -> PostOutcomes] ]
  /\ response = NoResponse
  /\ outcome = NoOutcome

\* classifier.advise_folder_action(request)
AdviseAdapter ==
  /\ pc = "call"
  /\ response' = Adapter_advise_folder_action(advisor, request, backend.retries,
                                              backend.client_fails, backend.outcomes)
  /\ pc' = "returned"
  /\ UNCHANGED << catalogVars, folder_hashes, configVars, rows, folder_samples,
                  sorted_folders, actions,
                  decisions, calls, persisted_actions, merged_action_map, request, backend,
                  outcome,
                  serviceVars, mediaVars >>

NextAdapter == AdviseAdapter

SpecAdapter == InitAdapter /\ [][NextAdapter]_vars

\* the tokens FolderAction.from_string accepts
ValidTokens ==
  { ActionValue(FolderAction[i]) : i \in 1..Len(FolderAction) } \cup
  { << "m", "o", "v", "e", "_", "a", "s", "_", "u", "n", "i", "t" >>,
    << "m", "o", "v", "e", "a", "s", "u", "n", "i", "t" >>, << "u", "n", "i", "t" >>,
    << "s", "t", "r", "i", "p" >>, << "k", "e", "e", "p", "p", "a", "r", "e", "n", "t" >>,
    << "p", "a", "r", "e", "n", "t" >>, << "k", "e", "e", "p", "e", "x", "c", "e", "p", "t" >> }

\* the POSTs the adapter may make: one for OpenAI, the retries for Ollama
Attempts == IF advisor = "openai" THEN 1 ELSE backend.retries

Replies == {i \in 1..Attempts : backend.outcomes[i].kind = "reply"}

\* the request fails: the client cannot be opened, or every attempt ends in an error
RequestFails == backend.client_fails \/ Replies = {}

\* the backend's reply (the first one that arrives) is not a valid action token
ReplyInvalid ==
  /\ ~backend.client_fails
  /\ Replies # {}
  /\ LET first == CHOOSE i \in Replies : \A j \in Replies : i <= j
     IN  str_lower(str_strip(backend.outcomes[first].content, " ")) \notin ValidTokens

\* C7: an AI adapter's advise_folder_action always returns a final decision with a
\* non-null action; when the reply is not a valid action token, or the request still
\* fails after the retries, the action is the request's rule hint if present and
\* DISAGGREGATE otherwise.
C7_AdapterAlwaysDecides ==
  pc = "returned" =>
    /\ response.is_final
    /\ response.action \in SeqToSet(FolderAction)
    /\ (request.total_files # 0 /\ (RequestFails \/ ReplyInvalid))
         => response.action = IF request.rule_hint # None THEN request.rule_hint
                              ELSE DISAGGREGATE

\* Ollama answered with an invalid token after a failed attempt, and the hint decided
C7_Witness ==
  /\ pc = "returned"
  /\ advisor = "ollama"
  /\ request.total_files # 0
  /\ request.rule_hint = KEEP_EXCEPT
  /\ backend.outcomes[1].kind = "error"
  /\ ReplyInvalid
  /\ response.action = KEEP_EXCEPT

(***************************************************************************)
(* _decide_folder_action on its own: a rule table, an adapter, what the    *)
(* backend does and the sample of the folder /s/p are drawn, and the chain *)
(* is walked once.                                                         *)
(***************************************************************************)

\* the entries FolderSample.children can hold for /s/p, in the order the rows came
ChainChildren ==
  << [name |-> << "n", "m" >>, type |-> "dir", mime |-> Star, size |-> 0, file_count |-> 1],
     [name |-> << "a", ".", "c" >>, type |-> "file", mime |-> << "t" >>, size |-> 1,
      file_count |-> 1],
     [name |-> << "R" >>, type |-> "file", mime |-> << "t" >>, size |-> 1, file_count |-> 1] >>

ChainSamples ==
  { [ children |-> SelectSeq(ChainChildren, LAMBDA c : c \in kept),
      total_files |-> Cardinality(kept) ] :
      kept \in (SUBSET SeqToSet(ChainChildren)) \ {{}} }

ChainFolder == << "/", "s", "/", "p" >>

\* what the backend does during the call: errors only, a reply after an error, a
\* reply at once, a reply that is no action token
ChainOutcomes ==
  { [i \in 1..OLLAMA_RETRIES |-> PostError],
    [i \in 1..OLLAMA_RETRIES |-> IF i = 1 THEN PostError ELSE PostReply(ActionValue(KEEP))],
    [i \in 1..OLLAMA_RETRIES |-> PostReply(ActionValue(KEEP_EXCEPT))],
    [i \in 1..OLLAMA_RETRIES |-> PostReply(<< "x" >>)] }

InitChain ==
  /\ ServiceIdle
  /\ MediaIdle
  /\ CatalogEmpty
  /\ rules \in AdviceRuleTables
  /\ advisor \in {None} \cup AdapterKinds
  /\ batch_size = 1
  /\ folder_hashes = EmptyMap
  /\ pc = "call"
  /\ rows = <<>>
  /\ folder_samples \in { << [folder |-> ChainFolder, sample |-> sample] >> :
                             sample \in ChainSamples }
  /\ sorted_folders = << ChainFolder >>
  /\ actions = EmptyMap
  /\ decisions = EmptyMap
  /\ calls = <<>>
  /\ persisted_actions = EmptyMap
  /\ merged_action_map = EmptyMap
  /\ request = NoRequest
  /\ backend \in [ retries : {OLLAMA_RETRIES}, client_fails : BOOLEAN,
                    outcomes : ChainOutcomes ]
  /\ response = NoResponse
  /\ outcome = NoOutcome

\* _decide_folder_action(folder, folder_sample, rules, classifier, sources, decided, ...)
DecideFolder ==
  /\ pc = "call"
  /\ outcome' = decide_folder_action(
                   ChainFolder, folder_samples[1].sample,
                   [ rules |-> rules, has_rules |-> TRUE, adapter |-> advisor,
                     retries |-> backend.retries, client_fails |-> backend.client_fails,
                     outcomes |-> backend.outcomes ],
                   SOURCES, SOURCE_WRAPPER_REGEX)
  /\ pc' = "returned"
  /\ UNCHANGED << catalogVars, folder_hashes, configVars, rows, folder_samples,
                  sorted_folders, actions,
                  decisions, calls, persisted_actions, merged_action_map, request, backend,
                  response,
                  serviceVars, mediaVars >>

NextChain == DecideFolder

SpecChain == InitChain /\ [][NextChain]_vars

\* the classifiers in the order they are to be asked
ExpectedChain == << "rules" >> \o (IF advisor # None THEN << "ai" >> ELSE <<>>)

\* C4: the chain is walked rules first, then the AI: the first final decision fixes
\* the action and no later classifier is called; a delegation's hint is copied into
\* the request the next classifier sees; if every classifier delegates, the action is
\* the last hint if there is one, otherwise DISAGGREGATE.
C4_ChainWalk ==
  pc = "returned" =>
    LET c == outcome.calls
        last == c[Len(c)].response
    IN  /\ Len(c) \in 1..Len(ExpectedChain)
        /\ \A i \in 1..Len(c) : c[i].classifier = ExpectedChain[i]
        /\ c[1].request.rule_hint = None
        /\ \A i \in 1..(Len(c) - 1) :
             /\ ~c[i].response.is_final
             /\ c[i + 1].request = [c[i].request EXCEPT !.rule_hint = c[i].response.hint]
        /\ IF last.is_final
             THEN outcome.action = last.action /\ last.action # None
             ELSE /\ Len(c) = Len(ExpectedChain)
                  /\ outcome.action = IF last.hint # None THEN last.hint ELSE DISAGGREGATE

\* the rules delegated with a hint, the AI saw the hint and decided something else
C4_Witness ==
  /\ pc = "returned"
  /\ Len(outcome.calls) = 2
  /\ outcome.calls[1].response.hint = DISAGGREGATE
  /\ outcome.calls[2].request.rule_hint = DISAGGREGATE
  /\ outcome.action = KEEP_EXCEPT

(***************************************************************************)
(* Database.select_unclassified on its own: a catalog is drawn and the     *)
(* query is run once.                                                      *)
(***************************************************************************)

\* paths of files: /s/p/x  /s/P/x  /s/px  /s/q
CatalogPaths ==
  { << "/", "s", "/", "p", "/", "x" >>, << "/", "s", "/", "P", "/", "x" >>,
    << "/", "s", "/", "p", "x" >>, << "/", "s", "/", "q" >> }

\* paths of folders: /s/p  /s/_  /s/%
CatalogFolders ==
  { << "/", "s", "/", "p" >>, << "/", "s", "/", "_" >>, << "/", "s", "/", "%" >> }

\* a row of files: scanned and unclassified, or already classified
CatalogRows == { ScanRow(<< "t" >>), [ScanRow(<< "t" >>) EXCEPT !.category = "Documents"] }

\* a row of folder_actions, as save_folder_actions writes it
CatalogActionRows ==
  { [action |-> ActionValue(a), decision_source |-> DecisionUnknown, decided_at |-> 1] :
      a \in {KEEP, DISAGGREGATE} }

\* the largest LIMIT tried
MaxLimit == 2

InitCatalog ==
  /\ ServiceIdle
  /\ MediaIdle
  /\ \E present \in SUBSET CatalogPaths : files \in [present -> CatalogRows]
  /\ \E decided \in SUBSET CatalogFolders : folder_actions \in [decided -> CatalogActionRows]
  /\ now = 1
  /\ rules = <<>>
  /\ advisor = None
  /\ batch_size = 1
  /\ folder_hashes = EmptyMap
  /\ pc = "call"
  /\ BatchIdle
  /\ CallIdle

\* rows = db.select_unclassified(limit), limit None or a number
SelectRows ==
  /\ pc = "call"
  /\ \E limit \in {-1} \cup 1..MaxLimit :
       rows' = select_unclassified(files, folder_actions, limit)
  /\ pc' = "returned"
  /\ UNCHANGED << catalogVars, folder_hashes, configVars, folder_samples, sorted_folders,
                  actions,
                  decisions, calls, persisted_actions, merged_action_map, callVars,
                  serviceVars, mediaVars >>

NextCatalog == SelectRows

SpecCatalog == InitCatalog /\ [][NextCatalog]_vars

KeptFolders ==
  {folder \in DOMAIN folder_actions : folder_actions[folder].action = << "k", "e", "e", "p" >>}

\* C10: select_unclassified returns no file whose path lies under a folder whose
\* stored action is 'keep'.
C10_NoRowUnderKeptFolder ==
  pc = "returned" =>
    \A i \in 1..Len(rows) : \A folder \in KeptFolders : ~IsProperAncestor(folder, rows[i].path)

\* rows came back while an unclassified file under a kept folder stayed behind
C10_Witness ==
  /\ pc = "returned"
  /\ rows # <<>>
  /\ \E path \in DOMAIN files : \E folder \in KeptFolders :
       /\ files[path].category = None
       /\ IsProperAncestor(folder, path)
       /\ \A i \in 1..Len(rows) : rows[i].path # path

(***************************************************************************)
(* app/metrics.py: Metric.  Durations are whole seconds, latencies         *)
(* milliseconds.                                                           *)
(***************************************************************************)

MAX_LATENCY_SECONDS == 120

Max(a, b) == IF a >= b THEN a ELSE b

\* Metric(): nothing recorded yet
Metric == [success |-> 0, failure |-> 0, latency_ms |-> 0]

Metric_record(m, duration_s, success) ==
  LET duration == Max(0, Min(duration_s, MAX_LATENCY_SECONDS))
  IN  [ success |-> IF success THEN m.success + 1 ELSE m.success,
        failure |-> IF success THEN m.failure ELSE m.failure + 1,
        latency_ms |-> m.latency_ms + duration * 1000 ]

\* Metric.snapshot().requests
snapshot_requests(m) == m.success + m.failure

\* MetricSnapshot.success_rate >= num/den, as a comparison of fractions
success_rate_at_least(m, num, den) ==
  IF snapshot_requests(m) = 0
    THEN 0 >= num
    ELSE m.success * den >= num * snapshot_requests(m)

(***************************************************************************)
(* app/classifiers/multiplexed.py: MultiplexedClassifier.  Weights are     *)
(* counted in thousandths; the window metric and the stats dump, which     *)
(* only feed the log, are left out of the Worker.                          *)
(***************************************************************************)

\* a weight of the source, in thousandths
Thousandths(weight) == weight * 1000

\* MultiplexedClassifier.__init__: failure_cooldown (seconds), _default_weight
failure_cooldown == 2

default_weight == Thousandths(5)

\* Worker(classifier, name)
Worker(name) ==
  [ name |-> name, total |-> Metric, consecutive_failures |-> 0, current_weight |-> 0,
    cooldown_until |-> 0, in_flight |-> 0 ]

\* the positions of seq, in order, whose element satisfies Test
Positions(seq, Test(_)) ==
  SelectSeq([i \in 1..Len(seq) |-> i], LAMBDA i : Test(seq[i]))

InCooldown(worker, at) == worker.cooldown_until # 0 /\ at < worker.cooldown_until

Unused(worker) == snapshot_requests(worker.total) = 0 /\ worker.in_flight = 0

IsPrimary(worker) ==
  \/ Unused(worker)
  \/ worker.total.success # 0 /\ success_rate_at_least(worker.total, 4, 10)

\* the same with the cooldown test dropped
available_ignoring_cooldown(ws, at) ==
  LET primary == Positions(ws, LAMBDA w : IsPrimary(w))
      fallback == Positions(ws, LAMBDA w : ~IsPrimary(w))
  IN  IF primary # <<>> THEN primary ELSE fallback

\* the primary workers only, with no fallback to the others
available_primary_only(ws, at) ==
  Positions(ws, LAMBDA w : ~InCooldown(w, at) /\ IsPrimary(w))

\* _available_workers: the positions of the workers it returns; none stands for
\* RuntimeError("No workers available with acceptable success rate")
available_workers(ws, at) ==
  LET primary == Positions(ws, LAMBDA w : ~InCooldown(w, at) /\ IsPrimary(w))
      fallback == Positions(ws, LAMBDA w : ~InCooldown(w, at) /\ ~IsPrimary(w))
  IN  IF primary # <<>> THEN primary ELSE fallback

\* _worker_weight: 1000 / (avg + 1) is 1000 * success / (latency_ms + success)
worker_weight(worker) ==
  IF worker.total.success = 0 THEN default_weight
  ELSE IF worker.total.latency_ms <= 0 THEN default_weight
  ELSE Max(Thousandths(1) \div 10,
           Min(Thousandths(10),
               (Thousandths(1000) * worker.total.success)
                  \div (worker.total.latency_ms + worker.total.success)))

\* the loop of _select_worker over available[from..]: chosen is the first worker
\* whose raised current_weight is strictly the greatest
RECURSIVE SmoothRound(_, _, _, _, _)
SmoothRound(ws, available, from, chosen, total_weight) ==
  IF from > Len(available)
    THEN [ workers |-> [ws EXCEPT ![chosen].current_weight =
                                     IF total_weight > 0 THEN @ - total_weight ELSE @],
           selected |-> chosen ]
    ELSE With(worker_weight(ws[available[from]]), LAMBDA weight :
         With([ws EXCEPT ![available[from]].current_weight = @ + weight], LAMBDA raised :
           SmoothRound(raised, available, from + 1,
                       IF chosen = 0
                            \/ raised[available[from]].current_weight
                                 > raised[chosen].current_weight
                         THEN available[from] ELSE chosen,
                       total_weight + weight)))

\* always the first available worker
select_first_available(ws, at) ==
  With(available_workers(ws, at), LAMBDA available :
    IF available = <<>> THEN [workers |-> ws, selected |-> 0]
    ELSE [workers |-> ws, selected |-> available[1]])

\* a selection without the shortcut for unused workers: the weighted round only
select_weighted(ws, at) ==
  With(available_workers(ws, at), LAMBDA available :
    IF available = <<>> THEN [workers |-> ws, selected |-> 0]
    ELSE SmoothRound(ws, available, 1, 0, 0))

\* _select_worker: selected = 0 stands for the RuntimeError of _available_workers
select_worker(ws, at) ==
  With(available_workers(ws, at), LAMBDA available :
    IF available = <<>> THEN [workers |-> ws, selected |-> 0]
    ELSE With(SelectSeq(available, LAMBDA i : Unused(ws[i])), LAMBDA unused :
           IF unused # <<>>
             THEN [ workers |-> [ws EXCEPT ![unused[1]].current_weight = 0],
                    selected |-> unused[1] ]
             ELSE SmoothRound(ws, available, 1, 0, 0)))

\* a failure that leaves the cooldown alone
record_failure_no_cooldown(worker, duration, at) ==
  [ worker EXCEPT !.total = Metric_record(@, duration, FALSE),
                  !.consecutive_failures = @ + 1 ]

\* the except branch of classify and of advise_folder_action
record_failure(worker, duration, at) ==
  [ worker EXCEPT !.total = Metric_record(@, duration, FALSE),
                  !.consecutive_failures = @ + 1,
                  !.cooldown_until =
                     at + failure_cooldown * Min(5, worker.consecutive_failures + 1) ]

\* the try branch
record_success(worker, duration) ==
  [ worker EXCEPT !.total = Metric_record(@, duration, TRUE),
                  !.consecutive_failures = 0 ]

\* a finally branch that leaves the counter alone
release_nothing(worker) == worker

\* the finally branch
release(worker) == [worker EXCEPT !.in_flight = Max(0, @ - 1)]

(***************************************************************************)
(* The multiplexer at work.  classify is called from the gather of one     *)
(* batch (app/planner.py, line 203): every call of the batch runs up to    *)
(* its await, selecting its worker, before any of them resumes;            *)
(* advise_folder_action is synchronous and called between two gathers.     *)
(***************************************************************************)

MuxWorkers == 2
MaxGather == 2
MaxRequests == 4
MaxClock == 4

\* what a worker's classify returns when it does not raise
WorkerResults ==
  { [path |-> "Documents", error |-> None], [path |-> "Unknown", error |-> "HTTPError"] }

\* what a worker's advise_folder_action returns when it does not raise
WorkerAdvice == { decision(KEEP, Reason("ai", << "ai_decision" >>)) }

\* the requests the multiplexer has given a worker so far
Handled(worker) == snapshot_requests(worker.total) + worker.in_flight

\* the requests started so far
RECURSIVE Started(_)
Started(ws) == IF ws = <<>> THEN 0 ELSE Handled(Head(ws)) + Started(Tail(ws))

RemoveAt(seq, k) == SubSeq(seq, 1, k - 1) \o SubSeq(seq, k + 1, Len(seq))

muxFrame ==
  << catalogVars, folder_hashes, configVars, rows, folder_samples, sorted_folders, actions,
     decisions,
     calls, persisted_actions, merged_action_map, callVars, sem, throttle_lock,
     last_request_at, settings, mediaVars >>

MuxRest ==
  /\ CatalogEmpty
  /\ BatchIdle
  /\ CallIdle
  /\ MediaIdle
  /\ rules = <<>>
  /\ advisor = None
  /\ batch_size = 1
  /\ folder_hashes = EmptyMap
  /\ sem = 0
  /\ throttle_lock = None
  /\ last_request_at = 0
  /\ settings = NoSettings

\* MultiplexedClassifier(classifiers), two classifiers or more (orchestrator.py)
InitMux ==
  /\ MuxRest
  /\ pc = "dispatch"
  /\ clock = 1
  /\ workers = [i \in 1..MuxWorkers |-> Worker(i)]
  /\ tasks = <<>>
  /\ step = NoStep

\* classify, lines 38-43: _select_worker, in_flight += 1, then the await
ClassifyStarts(max_requests, max_gather) ==
  /\ pc = "dispatch"
  /\ Len(tasks) < max_gather
  /\ Started(workers) < max_requests
  /\ \E sel \in { select_worker(workers, clock) } :
       IF sel.selected = 0
         THEN /\ step' = [kind |-> "raise", call |-> "classify", now |-> clock]
              /\ UNCHANGED << workers, tasks >>
         ELSE /\ workers' = [sel.workers EXCEPT ![sel.selected].in_flight = @ + 1]
              /\ tasks' = Append(tasks, [worker |-> sel.selected, started |-> clock])
              /\ step' = [ kind |-> "select", call |-> "classify", worker |-> sel.selected,
                           now |-> clock,
                           cooldown_until |-> workers[sel.selected].cooldown_until ]
  /\ UNCHANGED << pc, clock >>
  /\ UNCHANGED muxFrame

\* classify, lines 44-63 and 88-91: the worker's classify returned
ClassifyReturns(results, Ready(_)) ==
  /\ tasks # <<>>
  /\ \E k \in 1..Len(tasks), result \in results :
       /\ Ready(tasks[k])
       /\ workers' = [workers EXCEPT ![tasks[k].worker] =
                        release(record_success(@, clock - tasks[k].started))]
       /\ step' = [ kind |-> "return", call |-> "classify", worker |-> tasks[k].worker,
                    now |-> clock, raised |-> FALSE,
                    response |-> [path |-> result.path, error |-> result.error] ]
       /\ tasks' = RemoveAt(tasks, k)
  /\ pc' = IF Len(tasks) = 1 THEN "dispatch" ELSE "await"
  /\ UNCHANGED clock
  /\ UNCHANGED muxFrame

\* classify, lines 64-91: the worker's classify raised
ClassifyFails ==
  /\ tasks # <<>>
  /\ \E k \in 1..Len(tasks) :
       /\ workers' = [workers EXCEPT ![tasks[k].worker] =
                        release(record_failure(@, clock - tasks[k].started, clock))]
       /\ step' = [ kind |-> "return", call |-> "classify", worker |-> tasks[k].worker,
                    now |-> clock, raised |-> TRUE,
                    response |-> [path |-> "Unknown", error |-> "Exception"] ]
       /\ tasks' = RemoveAt(tasks, k)
  /\ pc' = IF Len(tasks) = 1 THEN "dispatch" ELSE "await"
  /\ UNCHANGED clock
  /\ UNCHANGED muxFrame

\* advise_folder_action, lines 93-123: the whole call, which takes duration seconds
AdviseFolder(max_requests, durations, outcomes, max_clock) ==
  /\ pc = "dispatch"
  /\ tasks = <<>>
  /\ Started(workers) < max_requests
  /\ \E sel \in { select_worker(workers, clock) } :
       IF sel.selected = 0
         THEN /\ step' = [kind |-> "raise", call |-> "advise", now |-> clock]
              /\ UNCHANGED << workers, clock >>
         ELSE \E duration \in durations, raised \in outcomes, rule_hint \in {None, KEEP},
                 advice \in WorkerAdvice :
                /\ clock + duration <= max_clock
                /\ clock' = clock + duration
                /\ workers' =
                     [sel.workers EXCEPT ![sel.selected] =
                        release(IF raised
                                  THEN record_failure([@ EXCEPT !.in_flight = @ + 1],
                                                      duration, clock + duration)
                                  ELSE record_success([@ EXCEPT !.in_flight = @ + 1],
                                                      duration))]
                /\ step' = [ kind |-> "return", call |-> "advise", worker |-> sel.selected,
                             now |-> clock, raised |-> raised,
                             cooldown_until |-> workers[sel.selected].cooldown_until,
                             response |->
                               IF raised
                                 THEN decision(IF rule_hint # None THEN rule_hint
                                                                   ELSE DISAGGREGATE,
                                               Reason("multiplexer", << "error" >>))
                                 ELSE advice ]
  /\ UNCHANGED << pc, tasks >>
  /\ UNCHANGED muxFrame

\* a second passes
Tick ==
  /\ clock < MaxClock
  /\ clock' = clock + 1
  /\ step' = [kind |-> "tick", now |-> clock + 1]
  /\ UNCHANGED << pc, workers, tasks >>
  /\ UNCHANGED muxFrame

MuxClassify == ClassifyStarts(MaxRequests, MaxGather)

MuxReturns == ClassifyReturns(WorkerResults, LAMBDA task : TRUE)

MuxAdvise == AdviseFolder(MaxRequests, 0..1, BOOLEAN, MaxClock)

NextMux == MuxClassify \/ MuxReturns \/ ClassifyFails \/ MuxAdvise \/ Tick

SpecMux == InitMux /\ [][NextMux]_vars

\* C11: whatever classify and advise_folder_action calls came before, with whatever
\* successes and failures, the worker a call selects has no cooldown_until that
\* lies after the time of the selection.
C11_NoSelectionInCooldown ==
  (step.kind = "select" \/ (step.kind = "return" /\ step.call = "advise"))
    => ~(step.cooldown_until # 0 /\ step.now < step.cooldown_until)

\* a worker is selected once its cooldown has run out, while another is still cooling
C11_Witness ==
  /\ step.kind = "select"
  /\ step.cooldown_until # 0
  /\ step.cooldown_until <= step.now
  /\ \E i \in 1..Len(workers) : i # step.worker /\ InCooldown(workers[i], step.now)

(***************************************************************************)
(* The multiplexer over a long run of classify calls, the time moving from *)
(* the end of one cooldown to the end of the next.                         *)
(***************************************************************************)

BackoffRequests == 12
BackoffClock == 40

\* the cooldowns still running
Cooling(ws, at) == { ws[i].cooldown_until : i \in { j \in 1..Len(ws) : InCooldown(ws[j], at) } }

\* between two calls, the time passes until the first running cooldown is over
CooldownEnds ==
  /\ tasks = <<>>
  /\ Cooling(workers, clock) # {}
  /\ \E until \in Cooling(workers, clock) :
       /\ \A other \in Cooling(workers, clock) : until <= other
       /\ until <= BackoffClock
       /\ clock' = until
       /\ step' = [kind |-> "tick", now |-> until]
  /\ UNCHANGED << pc, workers, tasks >>
  /\ UNCHANGED muxFrame

\* one call at a time (a batch of one file), answered with a category when it returns
BackoffClassify == ClassifyStarts(BackoffRequests, 1)

BackoffReturns ==
  ClassifyReturns({[path |-> "Documents", error |-> None]}, LAMBDA task : TRUE)

NextBackoff == BackoffClassify \/ BackoffReturns \/ ClassifyFails \/ CooldownEnds

\* MultiplexedClassifier([first, second])
InitBackoff ==
  /\ MuxRest
  /\ pc = "dispatch"
  /\ clock = 1
  /\ workers = << Worker(1), Worker(2) >>
  /\ tasks = <<>>
  /\ step = NoStep

SpecBackoff == InitBackoff /\ [][NextBackoff]_vars

\* C13: when the selected worker's classify raises, classify records one failure
\* for that worker, raises its consecutive_failures by one, sets its cooldown to
\* failure_cooldown * min(consecutive_failures, 5) seconds from now, and returns a
\* response that carries the error.
C13_FailureRecordedAndReturned ==
  [][ (step'.kind = "return" /\ step'.call = "classify" /\ step'.raised)
        => /\ step'.worker \in 1..Len(workers)
           /\ LET before == workers[step'.worker]
                  after == workers'[step'.worker]
              IN  /\ after.total.failure = before.total.failure + 1
                  /\ after.total.success = before.total.success
                  /\ after.consecutive_failures = before.consecutive_failures + 1
                  /\ after.cooldown_until =
                       clock' + failure_cooldown * Min(after.consecutive_failures, 5)
                  /\ \A i \in 1..Len(workers) : i # step'.worker =>
                       /\ workers'[i].total = workers[i].total
                       /\ workers'[i].cooldown_until = workers[i].cooldown_until
           /\ step'.response.error # None
           /\ step'.response.path = "Unknown" ]_vars

\* a worker's classify has raised for the sixth time in a row: the backoff is capped
C13_Witness ==
  /\ step.kind = "return"
  /\ step.call = "classify"
  /\ step.raised
  /\ workers[step.worker].consecutive_failures = 6
  /\ workers[step.worker].cooldown_until = step.now + failure_cooldown * 5

(***************************************************************************)
(* The multiplexer over workers that all succeed, each call taking the     *)
(* same time.                                                              *)
(***************************************************************************)

BalanceWorkers == 3
BalanceRequests == 12
BalanceGather == 4
EqualLatency == 1

InitBalance ==
  /\ MuxRest
  /\ pc = "dispatch"
  /\ clock = 1
  /\ workers \in { [i \in 1..n |-> Worker(i)] : n \in 2..BalanceWorkers }
  /\ tasks = <<>>
  /\ step = NoStep

BalanceClassify == ClassifyStarts(BalanceRequests, BalanceGather)

\* a call returns EqualLatency seconds after it started
BalanceReturns ==
  ClassifyReturns({[path |-> "Documents", error |-> None]},
                  LAMBDA task : clock = task.started + EqualLatency)

BalanceAdvise ==
  AdviseFolder(BalanceRequests, {EqualLatency}, {FALSE},
               1 + BalanceRequests * EqualLatency)

\* a second passes while calls are in flight
LatencyPasses ==
  /\ tasks # <<>>
  /\ \A k \in 1..Len(tasks) : clock < tasks[k].started + EqualLatency
  /\ clock' = clock + 1
  /\ step' = [kind |-> "tick", now |-> clock + 1]
  /\ UNCHANGED << pc, workers, tasks >>
  /\ UNCHANGED muxFrame

NextBalance == BalanceClassify \/ BalanceReturns \/ BalanceAdvise \/ LatencyPasses

SpecBalance == InitBalance /\ [][NextBalance]_vars

\* the least whole number that is at least num / den
Ceiling(num, den) == (num + den - 1) \div den

\* C12: over the N requests made so far (N at least four times the number W of
\* workers) to workers that all succeed with the same latency, no worker has been
\* selected more than ceil(1.25 * N / W) times.
C12_LoadBalanced ==
  Started(workers) >= 4 * Len(workers) =>
    \A i \in 1..Len(workers) :
      Handled(workers[i]) <= Ceiling(5 * Started(workers), 4 * Len(workers))

(***************************************************************************)
(* app/planner.py: Planner.classify_and_plan with a multiplexer as pool.   *)
(* The rule table decides every folder itself and no file, so each file of *)
(* a batch goes through pool.classify and the resolver never asks the      *)
(* advisor.                                                                *)
(***************************************************************************)

\* the catalog after a scan:  /s/d/a   /s/d/b   /s/d/c
RunFiles ==
  ( << "/", "s", "/", "d", "/", "a" >> :> ScanRow(<< "t" >>) )
  @@ ( << "/", "s", "/", "d", "/", "b" >> :> ScanRow(<< "t" >>) )
  @@ ( << "/", "s", "/", "d", "/", "c" >> :> ScanRow(<< "t" >>) )

\* rules.csv: one final rule for every path that ends with "/", that is every folder
RunRules ==
  << Rule(Pat("ends", << "/" >>), NoPattern, "Documents", DISAGGREGATE, FINAL) >>

\* a call of one() that has not returned yet
Pending == [path |-> "Pending", error |-> None]

InitRun ==
  /\ MediaIdle
  /\ CallIdle
  /\ BatchIdle
  /\ files = RunFiles
  /\ folder_actions = EmptyMap
  /\ now = 0
  /\ rules = RunRules
  /\ advisor = "multiplexed"
  /\ batch_size \in 1..MaxBatchSize
  /\ folder_hashes = EmptyMap
  /\ pc = "select"
  /\ clock = 1
  /\ workers = [i \in 1..MuxWorkers |-> Worker(i)]
  /\ tasks = <<>>
  /\ step = NoStep
  /\ sem = 0
  /\ throttle_lock = None
  /\ last_request_at = 0
  /\ settings = NoSettings

\* lines 117-129: rows = select_unclassified(batch_size); no rows: the loop ends and
\* the finally branch closes the pool
RunSelect ==
  /\ pc = "select"
  /\ LET selected == select_unclassified(files, folder_actions, batch_size)
         samples == collect_folder_samples(selected)
     IN  IF selected = <<>>
           THEN /\ pc' = "done"
                /\ UNCHANGED << rows, folder_samples, sorted_folders, actions, decisions,
                                calls, persisted_actions, merged_action_map >>
           ELSE /\ pc' = "dispatch"
                /\ rows' = selected
                /\ folder_samples' = samples
                /\ persisted_actions' = get_folder_actions(folder_actions)
                /\ sorted_folders' =
                     sorted_by_depth([i \in 1..Len(samples) |-> samples[i].folder])
                /\ actions' = EmptyMap
                /\ decisions' = EmptyMap
                /\ calls' = <<>>
                /\ merged_action_map' = EmptyMap
  /\ tasks' = <<>>
  /\ step' = [kind |-> "select_batch", now |-> clock]
  /\ UNCHANGED << catalogVars, folder_hashes, configVars, callVars, clock, workers, sem,
                  throttle_lock,
                  last_request_at, settings, mediaVars >>

runFrame ==
  << catalogVars, folder_hashes, configVars, rows, folder_samples, sorted_folders, actions,
     decisions,
     calls, persisted_actions, merged_action_map, callVars, clock, sem, throttle_lock,
     last_request_at, settings, mediaVars >>

\* where the gather stands once the calls in `ts` exist
GatherPc(ts) ==
  IF Len(ts) < Len(rows) THEN "dispatch"
  ELSE IF \E k \in 1..Len(ts) : ts[k].response = Pending THEN "await"
  ELSE "resolve"

\* lines 131-203: the next one() of the gather runs up to its await.  A final rule
\* answers by itself; otherwise pool.classify selects a worker, and the RuntimeError
\* of _select_worker leaves one(), the gather and classify_and_plan, whose finally
\* branch closes the pool.
RunClassify ==
  /\ pc = "dispatch"
  /\ LET row == rows[Len(tasks) + 1]
         m == RulesClassifier_match(rules, PathName(row.path), row.path, row.mime)
     IN  IF m # 0 /\ rules[m].requires_ai = FINAL
           THEN /\ tasks' = Append(tasks, [ path |-> row.path, worker |-> 0, started |-> clock,
                                            response |-> [path |-> rules[m].category_path,
                                                          error |-> None] ])
                /\ pc' = GatherPc(tasks')
                /\ step' = [kind |-> "rule", now |-> clock]
                /\ UNCHANGED workers
           ELSE \E sel \in { select_worker(workers, clock) } :
                  IF sel.selected = 0
                    THEN /\ pc' = "aborted"
                         /\ step' = [kind |-> "raise", call |-> "classify", now |-> clock]
                         /\ UNCHANGED << workers, tasks >>
                    ELSE /\ workers' = [sel.workers EXCEPT ![sel.selected].in_flight = @ + 1]
                         /\ tasks' = Append(tasks, [ path |-> row.path, worker |-> sel.selected,
                                                     started |-> clock, response |-> Pending ])
                         /\ pc' = GatherPc(tasks')
                         /\ step' = [ kind |-> "select", call |-> "classify",
                                      worker |-> sel.selected, now |-> clock,
                                      cooldown_until |-> workers[sel.selected].cooldown_until ]
  /\ UNCHANGED runFrame

\* the worker's classify returned: pool.classify hands its response to one()
RunReturns ==
  /\ pc \in {"dispatch", "await"}
  /\ \E k \in 1..Len(tasks), result \in WorkerResults :
       /\ tasks[k].response = Pending
       /\ workers' = [workers EXCEPT ![tasks[k].worker] =
                        release(record_success(@, clock - tasks[k].started))]
       /\ tasks' = [tasks EXCEPT ![k].response = result]
       /\ step' = [ kind |-> "return", call |-> "classify", worker |-> tasks[k].worker,
                    now |-> clock, raised |-> FALSE, response |-> result ]
  /\ pc' = IF pc = "dispatch" THEN "dispatch" ELSE GatherPc(tasks')
  /\ UNCHANGED runFrame

\* the worker's classify raised: pool.classify answers Unknown with the error
RunFails ==
  /\ pc \in {"dispatch", "await"}
  /\ \E k \in 1..Len(tasks) :
       /\ tasks[k].response = Pending
       /\ workers' = [workers EXCEPT ![tasks[k].worker] =
                        release(record_failure(@, clock - tasks[k].started, clock))]
       /\ tasks' = [tasks EXCEPT ![k].response = [path |-> "Unknown", error |-> "Exception"]]
       /\ step' = [ kind |-> "return", call |-> "classify", worker |-> tasks[k].worker,
                    now |-> clock, raised |-> TRUE,
                    response |-> [path |-> "Unknown", error |-> "Exception"] ]
  /\ pc' = IF pc = "dispatch" THEN "dispatch" ELSE GatherPc(tasks')
  /\ UNCHANGED runFrame

\* lines 205-305 once build_folder_action_map has returned: the new actions are saved
\* and merged, and every row of the batch gets the category of its response
RunWrite ==
  /\ pc = "resolve"
  /\ sorted_folders = <<>>
  /\ IF DOMAIN actions # {}
       THEN /\ now' = now + 1
            /\ folder_actions' =
                 save_folder_actions(folder_actions,
                                     [f \in DOMAIN actions |-> ActionValue(actions[f])],
                                     decisions, now + 1)
       ELSE UNCHANGED << folder_actions, now >>
  /\ merged_action_map' = MergeActions(persisted_actions, actions)
  /\ files' = update_category_dest(files,
                [ path \in {tasks[k].path : k \in 1..Len(tasks)} |->
                    [ category |-> (CHOOSE t \in SeqToSet(tasks) : t.path = path).response.path,
                      dest |-> "planned" ] ])
  /\ pc' = "select"
  /\ step' = [kind |-> "write", now |-> clock]
  /\ UNCHANGED << folder_hashes, configVars, rows, folder_samples, sorted_folders, actions,
                  decisions,
                  calls, persisted_actions, callVars, clock, workers, tasks, sem,
                  throttle_lock, last_request_at, settings, mediaVars >>

NextRun ==
  RunSelect \/ RunClassify \/ RunReturns \/ RunFails \/ EvaluateFolder \/ RunWrite
    \/ CooldownEnds

SpecRun == InitRun /\ [][NextRun]_vars

\* C14: a classification failure of one file (its worker raised, or the multiplexer
\* had no worker available) aborts neither the batch nor the run: the run never
\* stops on that failure, leaving the rows of the batch unwritten.
C14_FailureNeverAborts ==
  pc = "aborted" => \A i \in 1..Len(rows) : files[rows[i].path].category # None

(***************************************************************************)
(* app/classifiers/ollama.py, app/classifiers/openai.py: classify.         *)
(* Each call is a task of the event loop; a step runs the task from one    *)
(* await to the next.  Times are whole seconds of loop.time().             *)
(***************************************************************************)

ClassifyCalls == 2
MaxRetries == 2
MaxConcurrency == 2
ClassifyClock == 4

\* OLLAMA_THROTTLE_SECONDS: off, or two seconds
ThrottleChoices == {0, 2}

\* config.OLLAMA_WORKERS (its default)
OLLAMA_WORKERS == 4

RECURSIVE Pow(_, _)
Pow(base, exponent) == IF exponent = 0 THEN 1 ELSE base * Pow(base, exponent - 1)

\* the loop runs over range(configured), whatever it is
retries_as_configured(configured) == configured

\* retries = max(1, config.OLLAMA_RETRIES)
OllamaRetries(configured) == Max(1, configured)

\* asyncio.Semaphore(max_concurrency or config.OLLAMA_WORKERS)
SemaphoreSize(max_concurrency) ==
  IF max_concurrency = 0 THEN OLLAMA_WORKERS ELSE max_concurrency

\* a permit that is never given back
permit_kept(value) == value

\* Semaphore.release()
permit_released(value) == value + 1

\* the lock is taken whoever holds it
lock_ignored(lock) == TRUE

\* Lock.acquire() returns at once
lock_free(lock) == lock = None

\* wait = backoff ** attempt, floored by throttle_seconds
backoff_wait(backoff, attempt, throttle_seconds) ==
  Max(Pow(backoff, attempt), throttle_seconds)

\* a call that has not returned
NoReply == [path |-> "NoReply", error |-> None, metrics |-> [attempt |-> 0, error |-> None]]

\* ClassifierResponse(normalized_path, metrics) of a POST that was answered; a reply
\* that normalize_result cannot place is Unknown with metrics["error"] and no error
reply_response(reply, attempt_index) ==
  IF reply = "category"
    THEN [ path |-> "Documents", error |-> None,
           metrics |-> [attempt |-> attempt_index, error |-> None] ]
    ELSE [ path |-> "Unknown", error |-> None,
           metrics |-> [attempt |-> attempt_index, error |-> "Unable to normalize"] ]

\* ClassifierResponse(UNKNOWN_CATEGORY, metrics=last_metrics, error=last_error)
failure_response(attempt_index) ==
  [ path |-> "Unknown", error |-> "HTTPError",
    metrics |-> [attempt |-> attempt_index, error |-> "HTTPError"] ]

\* a classify call before it starts
NewTask ==
  [ pc |-> "idle", attempt |-> 0, wake |-> 0, posts |-> 0, answered |-> 0,
    response |-> NoReply ]

\* inside `async with self.sem`
InSection(task) == task.pc \in {"loop", "lock", "throttle_sleep", "post", "backoff"}

classifyFrame ==
  << catalogVars, folder_hashes, configVars, batchVars, callVars, workers, settings,
     mediaVars >>

\* one adapter of either flavor and its configuration
InitClassify ==
  /\ CatalogEmpty
  /\ BatchIdle
  /\ CallIdle
  /\ MediaIdle
  /\ rules = <<>>
  /\ batch_size = 1
  /\ folder_hashes = EmptyMap
  /\ pc = "classify"
  /\ advisor \in AdapterKinds
  /\ settings \in [ retries : 0..MaxRetries, backoff : {2},
                    throttle_seconds : ThrottleChoices,
                    max_concurrency : 1..MaxConcurrency ]
  /\ sem = SemaphoreSize(settings.max_concurrency)
  /\ throttle_lock = None
  /\ last_request_at = 0
  /\ clock = 1
  /\ workers = <<>>
  /\ tasks = [t \in 1..ClassifyCalls |-> NewTask]
  /\ step = NoStep

\* `async with self.sem` is entered and _call starts.  The OpenAI flavor posts at
\* once; the native one starts its loop over range(retries).  The calls are numbered
\* in the order in which they get their permit.
Enter ==
  \E t \in 1..Len(tasks) :
    /\ tasks[t].pc = "idle"
    /\ \A u \in 1..(t - 1) : tasks[u].pc # "idle"
    /\ sem > 0
    /\ sem' = sem - 1
    /\ tasks' = [tasks EXCEPT ![t].pc = IF advisor = "openai" THEN "post" ELSE "loop",
                              ![t].posts = IF advisor = "openai" THEN 1 ELSE 0]
    /\ step' = [kind |-> "enter"]
    /\ UNCHANGED << clock, throttle_lock, last_request_at >>
    /\ UNCHANGED classifyFrame

\* ollama.py 180-188 and 116-127: the top of the loop and _enforce_throttle up to
\* its sleep or, without one, up to the POST
LoopTop ==
  \E t \in 1..Len(tasks) :
    /\ tasks[t].pc \in {"loop", "lock"}
    /\ IF tasks[t].attempt >= OllamaRetries(settings.retries)
         THEN \* the loop has run out: lines 260-265, then the permit is given back
              /\ tasks' = [tasks EXCEPT ![t].pc = "done",
                                        ![t].response =
                                           IF tasks[t].posts = 0
                                             THEN [ path |-> "Unknown", error |-> None,
                                                    metrics |-> [attempt |-> 0,
                                                                 error |-> None] ]
                                             ELSE failure_response(tasks[t].posts)]
              /\ sem' = permit_released(sem)
              /\ step' = [kind |-> "return"]
              /\ UNCHANGED << throttle_lock, last_request_at >>
         ELSE IF settings.throttle_seconds <= 0
           THEN /\ tasks' = [tasks EXCEPT ![t].pc = "post", ![t].posts = @ + 1]
                /\ step' = [kind |-> "post"]
                /\ UNCHANGED << sem, throttle_lock, last_request_at >>
         ELSE IF ~lock_free(throttle_lock)
           THEN \* the task waits for the lock
                /\ tasks[t].pc = "loop"
                /\ tasks' = [tasks EXCEPT ![t].pc = "lock"]
                /\ step' = [kind |-> "wait_lock"]
                /\ UNCHANGED << sem, throttle_lock, last_request_at >>
         ELSE IF settings.throttle_seconds - (clock - last_request_at) > 0
           THEN /\ throttle_lock' = "held"
                /\ tasks' = [tasks EXCEPT ![t].pc = "throttle_sleep",
                                          ![t].wake = last_request_at
                                                        + settings.throttle_seconds]
                /\ step' = [kind |-> "throttle_sleep"]
                /\ UNCHANGED << sem, last_request_at >>
         ELSE /\ last_request_at' = clock
              /\ tasks' = [tasks EXCEPT ![t].pc = "post", ![t].posts = @ + 1]
              /\ step' = [kind |-> "request_start"]
              /\ UNCHANGED << sem, throttle_lock >>
    /\ UNCHANGED clock
    /\ UNCHANGED classifyFrame

\* ollama.py 124-127: the sleep of _enforce_throttle is over
ThrottleWakes ==
  \E t \in 1..Len(tasks) :
    /\ tasks[t].pc = "throttle_sleep"
    /\ clock >= tasks[t].wake
    /\ last_request_at' = clock
    /\ throttle_lock' = None
    /\ tasks' = [tasks EXCEPT ![t].pc = "post", ![t].posts = @ + 1]
    /\ step' = [kind |-> "request_start"]
    /\ UNCHANGED << clock, sem >>
    /\ UNCHANGED classifyFrame

\* the POST is answered: the response is returned and the permit given back
PostAnswered ==
  \E t \in 1..Len(tasks), reply \in {"category", "unplaced"} :
    /\ tasks[t].pc = "post"
    /\ tasks' = [tasks EXCEPT ![t].pc = "done", ![t].answered = @ + 1,
                              ![t].response = reply_response(reply, tasks[t].posts)]
    /\ sem' = permit_released(sem)
    /\ step' = [kind |-> "return"]
    /\ UNCHANGED << clock, throttle_lock, last_request_at >>
    /\ UNCHANGED classifyFrame

\* the POST fails (the except branch).  The OpenAI flavor returns the failure; the
\* native one sleeps and goes on while attempt < retries - 1, else leaves the loop.
PostFails ==
  \E t \in 1..Len(tasks) :
    /\ tasks[t].pc = "post"
    /\ IF advisor # "openai" /\ tasks[t].attempt < OllamaRetries(settings.retries) - 1
         THEN /\ tasks' = [tasks EXCEPT ![t].pc = "backoff",
                                        ![t].wake = clock + backoff_wait(settings.backoff,
                                                                         tasks[t].attempt,
                                                                         settings.throttle_seconds)]
              /\ step' = [kind |-> "backoff"]
              /\ UNCHANGED sem
         ELSE /\ tasks' = [tasks EXCEPT ![t].pc = "done",
                                        ![t].response = failure_response(tasks[t].posts)]
              /\ sem' = permit_released(sem)
              /\ step' = [kind |-> "return"]
    /\ UNCHANGED << clock, throttle_lock, last_request_at >>
    /\ UNCHANGED classifyFrame

\* ollama.py 256-257: the sleep before the next attempt is over
BackoffWakes ==
  \E t \in 1..Len(tasks) :
    /\ tasks[t].pc = "backoff"
    /\ clock >= tasks[t].wake
    /\ tasks' = [tasks EXCEPT ![t].pc = "loop", ![t].attempt = @ + 1]
    /\ step' = [kind |-> "retry"]
    /\ UNCHANGED << clock, sem, throttle_lock, last_request_at >>
    /\ UNCHANGED classifyFrame

\* the task is cancelled at one of its awaits: CancelledError, which `except
\* Exception` lets through, leaves both `async with` blocks
Cancelled ==
  \E t \in 1..Len(tasks) :
    /\ tasks[t].pc \in {"lock", "throttle_sleep", "post", "backoff"}
    /\ tasks' = [tasks EXCEPT ![t].pc = "cancelled"]
    /\ sem' = permit_released(sem)
    /\ throttle_lock' = IF tasks[t].pc = "throttle_sleep" THEN None ELSE throttle_lock
    /\ step' = [kind |-> "cancel"]
    /\ UNCHANGED << clock, last_request_at >>
    /\ UNCHANGED classifyFrame

\* a second of loop.time() passes
LoopTimePasses ==
  /\ clock < ClassifyClock
  /\ clock' = clock + 1
  /\ step' = [kind |-> "tick"]
  /\ UNCHANGED << tasks, sem, throttle_lock, last_request_at >>
  /\ UNCHANGED classifyFrame

NextClassify ==
  Enter \/ LoopTop \/ ThrottleWakes \/ PostAnswered \/ PostFails \/ BackoffWakes
    \/ Cancelled \/ LoopTimePasses

SpecClassify == InitClassify /\ [][NextClassify]_vars

\* C15: a classify call never ends in an exception of its own: it is over as soon as a
\* POST is answered, has posted at least once and at most max(1, retries) times, and
\* when no POST was answered its response is Unknown with the error and the metrics of
\* the last attempt made
C15_ClassifyNeverRaises ==
  \A t \in 1..Len(tasks) :
    /\ tasks[t].pc \in {"idle", "loop", "lock", "throttle_sleep", "post", "backoff",
                        "done", "cancelled"}
    /\ tasks[t].answered > 0 =>
         /\ tasks[t].pc = "done"
         /\ tasks[t].answered = 1
         /\ tasks[t].response.error = None
         /\ tasks[t].response.metrics.attempt = tasks[t].posts
    /\ tasks[t].posts <= Max(1, settings.retries)
    /\ tasks[t].pc = "done" =>
         /\ tasks[t].posts >= 1
         /\ tasks[t].response # NoReply
         /\ tasks[t].answered = 0 =>
              /\ tasks[t].response.path = "Unknown"
              /\ tasks[t].response.error # None
              /\ tasks[t].response.metrics.error # None
              /\ tasks[t].response.metrics.attempt = tasks[t].posts

\* a native call that failed on every one of its two attempts, and an answered one
C15_Witness ==
  /\ advisor = "ollama"
  /\ settings.retries = 2
  /\ \E t \in 1..Len(tasks) :
       /\ tasks[t].pc = "done"
       /\ tasks[t].posts = 2
       /\ tasks[t].response.error # None
  /\ \E t \in 1..Len(tasks) :
       /\ tasks[t].pc = "done"
       /\ tasks[t].answered = 1

\* C16: for either flavor, a classify call returns the failure response only after
\* it has posted the configured number of times
C16_FailureOnlyAfterAllAttempts ==
  \A t \in 1..Len(tasks) :
    (tasks[t].pc = "done" /\ tasks[t].response.error # None)
      => tasks[t].posts = Max(1, settings.retries)

\* C17: with a throttle, a request start is recorded at least throttle_seconds after
\* the one before it, at most one task is between reading and writing
\* last_request_at, and no other task writes it in between
C17_ThrottleSerialized ==
  [][ settings.throttle_seconds > 0 =>
        /\ step'.kind = "request_start" =>
             last_request_at' - last_request_at >= settings.throttle_seconds
        /\ Cardinality({t \in 1..Len(tasks) : tasks'[t].pc = "throttle_sleep"}) <= 1
        /\ \A t \in 1..Len(tasks) :
             (tasks[t].pc = "throttle_sleep" /\ tasks'[t].pc = "throttle_sleep")
               => last_request_at' = last_request_at ]_vars

\* a retry that waits for the lock while another call sleeps in the throttle, after a
\* request start has been recorded
C17_Witness ==
  /\ settings.throttle_seconds > 0
  /\ last_request_at > 0
  /\ \E t, u \in 1..Len(tasks) :
       /\ tasks[t].pc = "throttle_sleep"
       /\ tasks[u].pc = "lock"
       /\ tasks[u].attempt > 0

\* C18: the calls inside the request section are never more than max_concurrency, and
\* every call that has left it, however it left, has given its permit back
C18_ConcurrencyBounded ==
  /\ Cardinality({t \in 1..Len(tasks) : InSection(tasks[t])}) <= settings.max_concurrency
  /\ sem + Cardinality({t \in 1..Len(tasks) : InSection(tasks[t])})
       = settings.max_concurrency

\* the only permit is taken again by a second call after the first one left the
\* section by a failure or by cancellation
C18_Witness ==
  /\ settings.max_concurrency = 1
  /\ sem = 0
  /\ \E u, v \in 1..Len(tasks) :
       /\ InSection(tasks[u])
       /\ \/ tasks[v].pc = "cancelled"
          \/ tasks[v].pc = "done" /\ tasks[v].response.error # None

(***************************************************************************)
(* app/media.py: MediaHelper.build_destination, and                        *)
(* app/categories.py: Categories.render_template.                          *)
(* A path is the sequence of its parts after the root, a part a string.    *)
(***************************************************************************)

MaxDirs == 3

\* cfg.MAIN_TARGET = "/t", as the arguments of pathlib.Path
MAIN_TARGET == << << "/", "t" >> >>

\* cfg.STRIP_DIRS: empty (its default)
STRIP_DIRS == << >>

\* the directory names of the model
DirS == << "s" >>
DirDoc == << "d", "o", "c" >>
DirAB == << "a", "_", "b" >>
DirNames == {DirDoc, DirAB}

\* the file's name, and the categories a file can have: one from the catalog, and
\* what normalize_result makes of a reply "Doc/."
FileName == << "f", ".", "x" >>
CategoryDoc == << << "D", "o", "c" >> >>
CategoryDocDot == << << "D", "o", "c" >>, << "." >> >>

\* _get_source_prefixes: the lowered parts of each of SOURCES + STRIP_DIRS (their
\* order by length is taken by LongestPrefix)
get_source_prefixes ==
  { prefix \in { SelectSeq(str_split(str_lower(str_strip(raw, "/")), "/"),
                           LAMBDA part : part # <<>>) :
                   raw \in SeqToSet(SOURCES \o STRIP_DIRS) } : prefix # <<>> }

\* _collect_parent_entries: one _DirEntry per part of path.parent, the parts that are
\* empty or end with ":" left out; abs_path is kept as the parts it joins
collect_parent_entries(parent_parts) ==
  With(SelectSeq(parent_parts, LAMBDA part : part # <<>> /\ part[Len(part)] # ":"),
       LAMBDA parts_accum :
         [ i \in 1..Len(parts_accum) |->
             [ value |-> parts_accum[i], lower |-> str_lower(parts_accum[i]),
               abs_path |-> SubSeq(parts_accum, 1, i),
               folder_action |-> None, action_source |-> None ] ])

\* _label_entries: the action the map holds for the entry's abs_path, else KEEP
label_entries(entries, node_actions) ==
  [ i \in 1..Len(entries) |->
      IF entries[i].abs_path \in DOMAIN node_actions
        THEN [entries[i] EXCEPT !.folder_action = node_actions[entries[i].abs_path],
                                !.action_source = "explicit"]
        ELSE [entries[i] EXCEPT !.folder_action = KEEP, !.action_source = None] ]

\* file_node.folder_actions as the dict it is: the path of each ancestor that has a
\* stored action (action_map[i] is the action of the i-th ancestor, None for none)
folder_actions_dict(parent_parts, action_map) ==
  [ path \in { SubSeq(parent_parts, 1, i) :
                 i \in { k \in 1..Len(parent_parts) : action_map[k] # None } } |->
      action_map[Len(path)] ]

\* the index of the last KEEP or KEEP_EXCEPT entry, 0 for None
find_last_keep_index(entries) ==
  LET hits == {i \in 1..Len(entries) : entries[i].folder_action \in {KEEP, KEEP_EXCEPT}}
  IN  IF hits = {} THEN 0 ELSE CHOOSE i \in hits : \A j \in hits : j <= i

\* _find_first_keep_index: the index (from 1) of the first KEEP or KEEP_EXCEPT
\* entry, 0 for None
find_first_keep_index(entries) ==
  LET hits == {i \in 1..Len(entries) : entries[i].folder_action \in {KEEP, KEEP_EXCEPT}}
  IN  IF hits = {} THEN 0 ELSE CHOOSE i \in hits : \A j \in hits : i <= j

\* the first multi-level prefix, longest first, that the entries start with
LongestPrefix(entries) ==
  LET matching == { prefix \in get_source_prefixes :
                      /\ Len(prefix) > 1
                      /\ Len(entries) >= Len(prefix)
                      /\ \A i \in 1..Len(prefix) : entries[i].lower = prefix[i] }
  IN  IF matching = {} THEN 0
      ELSE Len(CHOOSE prefix \in matching : \A other \in matching : Len(other) <= Len(prefix))

\* media.py 213-217: go on over single-level entries of the strip list
RECURSIVE StripSingles(_, _)
StripSingles(entries, stripped) ==
  IF /\ stripped < Len(entries)
     /\ entries[stripped + 1].lower
          \in {prefix[1] : prefix \in {p \in get_source_prefixes : Len(p) = 1}}
    THEN StripSingles(entries, stripped + 1)
    ELSE stripped

\* media.py 219-223: drop one source wrapper, when a pattern is configured
StripWrapper(entries, stripped) ==
  IF /\ SOURCE_WRAPPER_REGEX # <<>>
     /\ stripped < Len(entries)
     /\ FullMatch(SOURCE_WRAPPER_REGEX, entries[stripped + 1].value)
    THEN stripped + 1
    ELSE stripped

\* a prefix strip without the category pass
category_kept(entries, stripped, category_parts, cat_idx) == stripped

\* media.py 225-233: strip the entries that repeat the category's parts
RECURSIVE StripCategory(_, _, _, _)
StripCategory(entries, stripped, category_parts, cat_idx) ==
  IF /\ stripped < Len(entries)
     /\ cat_idx <= Len(category_parts)
     /\ entries[stripped + 1].lower = str_lower(category_parts[cat_idx])
    THEN StripCategory(entries, stripped + 1, category_parts, cat_idx + 1)
    ELSE stripped

\* _strip_prefix: how many leading entries belong to the stripped prefix
strip_prefix(entries, category_parts) ==
  StripCategory(entries,
                StripWrapper(entries, StripSingles(entries, LongestPrefix(entries))),
                category_parts, 1)

\* the keys of Categories._templates that are not categories
DefaultKey == << << "_", "_", "d", "e", "f", "a", "u", "l", "t", "_", "_" >> >>
NonexistentKey ==
  << << "_", "_", "n", "o", "n", "e", "x", "i", "s", "t", "e", "n", "t", "_", "_" >> >>

\* Categories.template_for: the category's own template, else the __default__ one,
\* else None (the empty string stands for it: only its truth value is used)
template_for(templates, path) ==
  IF path \in DOMAIN templates THEN templates[path]
  ELSE IF DefaultKey \in DOMAIN templates THEN templates[DefaultKey]
  ELSE <<>>

\* pathlib.Path(filename).suffix
path_suffix(filename) ==
  LET dots == {i \in 2..(Len(filename) - 1) : filename[i] = "."}
  IN  IF dots = {} THEN <<>>
      ELSE SubSeq(filename, CHOOSE i \in dots : \A j \in dots : j <= i, Len(filename))

\* Categories._sanitize_component
sanitize_component(value) ==
  LET text == str_strip(value, " ")
  IN  str_strip([i \in 1..Len(text) |->
                   IF text[i] \in {"/", "|", "*"} THEN "_" ELSE text[i]], " ")

\* Categories._normalize_for_comparison: lowered, without whitespace, _ and -
normalize_for_comparison(text) ==
  SelectSeq(str_lower(text), LAMBDA c : c \notin {" ", "_"})

\* Categories._deduplicate_suffix
deduplicate_suffix(suffix_value, used_values) ==
  IF suffix_value = <<>> \/ used_values = <<>> THEN suffix_value
  ELSE str_join(
         SelectSeq(SelectSeq(str_split(suffix_value, "/"),
                             LAMBDA p : str_strip(p, " ") # <<>>),
                   LAMBDA part :
                     /\ normalize_for_comparison(part) # <<>>
                     /\ normalize_for_comparison(part)
                          \notin {normalize_for_comparison(v) : v \in SeqToSet(used_values)}),
         << "/" >>)

\* Categories._resolve_placeholder without the tokens suffix and ai_category, which
\* no template of the model uses: [text, used_values]
RECURSIVE ResolveTokens(_, _, _, _, _)
ResolveTokens(tokens, idx, context, used_values, total) ==
  IF idx > Len(tokens) THEN [text |-> <<>>, used_values |-> used_values]
  ELSE IF tokens[idx] \in DOMAIN context
    THEN [ text |-> str_strip(context[tokens[idx]], " "),
           used_values |-> IF str_strip(context[tokens[idx]], " ") # <<>>
                             THEN Append(used_values, str_strip(context[tokens[idx]], " "))
                             ELSE used_values ]
  ELSE IF idx = total /\ total > 1
    THEN [text |-> tokens[idx], used_values |-> used_values]
  ELSE ResolveTokens(tokens, idx + 1, context, used_values, total)

resolve_placeholder(content, context, used_values) ==
  LET tokens == SelectSeq([i \in 1..Len(str_split(content, "|")) |->
                             str_strip(str_split(content, "|")[i], " ")],
                          LAMBDA token : token # <<>>)
  IN  ResolveTokens(tokens, 1, context, used_values, Len(tokens))

\* _PLACEHOLDER_PATTERN.sub over one template part: every {content} without
\* braces inside, from the left, is replaced by what it resolves to
RECURSIVE SubstitutePlaceholders(_, _, _)
SubstitutePlaceholders(raw, context, used_values) ==
  LET opens == { i \in 1..Len(raw) :
                   /\ raw[i] = "{"
                   /\ \E j \in (i + 2)..Len(raw) :
                        /\ raw[j] = "}"
                        /\ \A k \in (i + 1)..(j - 1) : raw[k] \notin {"{", "}"} }
  IN  IF opens = {} THEN [text |-> raw, used_values |-> used_values]
      ELSE LET i == CHOOSE o \in opens : \A other \in opens : o <= other
               j == CHOOSE c \in (i + 2)..Len(raw) :
                      raw[c] = "}" /\ \A k \in (i + 1)..(c - 1) : raw[k] # "}"
               resolved == resolve_placeholder(SubSeq(raw, i + 1, j - 1), context, used_values)
               rest == SubstitutePlaceholders(SubSeq(raw, j + 1, Len(raw)), context,
                                              resolved.used_values)
           IN  [ text |-> SubSeq(raw, 1, i - 1) \o resolved.text \o rest.text,
                 used_values |-> rest.used_values ]

\* the parts of a rendered text that go into the path: split on /, sanitized,
\* the empty ones left out
SanitizedParts(text) ==
  SelectSeq([i \in 1..Len(str_split(text, "/")) |->
               sanitize_component(str_split(text, "/")[i])],
            LAMBDA part : part # <<>>)

\* categories.py 433-455: the template's parts from idx on
RECURSIVE RenderParts(_, _, _, _, _, _)
RenderParts(template_parts, idx, context, filename, has_filename_ref, acc) ==
  IF idx > Len(template_parts) THEN acc
  ELSE LET sub == SubstitutePlaceholders(template_parts[idx], context, acc.used_values)
           names_file == /\ idx = Len(template_parts)
                         /\ has_filename_ref
                         /\ sub.text # <<>>
                         /\ filename # <<>>
           ext == path_suffix(filename)
           replaced == IF names_file /\ ext # <<>> /\ ~str_endswith(sub.text, ext)
                         THEN sub.text \o ext
                         ELSE sub.text
       IN  RenderParts(template_parts, idx + 1, context, filename, has_filename_ref,
                       [ segments |-> acc.segments \o SanitizedParts(replaced),
                         used_values |-> sub.used_values,
                         filename_rendered |-> acc.filename_rendered \/ names_file ])

\* Categories.render_template(template, metadata, category_path=, kept_path=,
\* filename=): the assembled path as text; kept_path is the empty string for None
render_template(template, context, category_path, kept_path, filename) ==
  LET template_lower == str_lower(template)
      has_filename_ref ==
        \/ str_contains(template_lower, << "{", "f", "i", "l", "e", "n", "a", "m", "e", "}" >>)
        \/ str_contains(template_lower, << "{", "f", "i", "l", "e", "_", "s", "t", "e", "m", "}" >>)
        \/ str_contains(template_lower, << "{", "t", "i", "t", "l", "e" >>)
      rendered == RenderParts(str_split(str_strip(template, "/"), "/"), 1, context, filename,
                              has_filename_ref,
                              [ segments |-> category_path, used_values |-> <<>>,
                                filename_rendered |-> FALSE ])
      kept == IF kept_path # <<>> /\ ~rendered.filename_rendered
                THEN SanitizedParts(deduplicate_suffix(kept_path, rendered.used_values))
                ELSE <<>>
      file == IF ~rendered.filename_rendered /\ filename # <<>>
                   /\ sanitize_component(filename) # <<>>
                THEN << sanitize_component(filename) >>
                ELSE <<>>
  IN  str_join(rendered.segments \o kept \o file, << "/" >>)

\* the parts of pathlib.Path(*args): every argument is split on /, and empty and
\* "." parts are dropped; no argument of the model is absolute but the first
PathParts(args) ==
  SelectSeq(str_split(str_join(args, << "/" >>), "/"),
            LAMBDA part : part # <<>> /\ part # << "." >>)

\* [e.value for e in entries[lo:hi]], lo and hi counted from 1, both included
Values(entries, lo, hi) == [i \in 1..(hi - lo + 1) |-> entries[lo + i - 1].value]

\* the explicit DISAGGREGATE entries from the keep pivot on
ExplicitDisaggregate(entries, keep_index) ==
  { i \in keep_index..Len(entries) : /\ keep_index # 0
                                     /\ entries[i].folder_action = DISAGGREGATE
                                     /\ entries[i].action_source = "explicit" }

\* a walk that never enters the disaggregate section
no_explicit_disaggregate(entries, keep_index) == 0

\* a walk that enters the disaggregate section at the last explicit DISAGGREGATE
last_explicit_disaggregate(entries, keep_index) ==
  LET explicit == ExplicitDisaggregate(entries, keep_index)
  IN  IF explicit = {} THEN 0 ELSE CHOOSE i \in explicit : \A j \in explicit : i >= j

\* the walk below a KEEP_EXCEPT pivot: the entry at which in_disaggregate_section
\* becomes true, 0 if it never does
first_explicit_disaggregate(entries, keep_index) ==
  LET explicit == ExplicitDisaggregate(entries, keep_index)
  IN  IF explicit = {} THEN 0 ELSE CHOOSE i \in explicit : \A j \in explicit : i <= j

\* MediaHelper.build_destination(file_node) with cfg.categories holding templates:
\* the destination's parts and the FullPath layers
build_destination(node, templates) ==
  LET name == node.physical_path[Len(node.physical_path)]
      template == template_for(templates, node.category)
      parent_parts == SubSeq(node.physical_path, 1, Len(node.physical_path) - 1)
      entries == label_entries(collect_parent_entries(parent_parts),
                               folder_actions_dict(parent_parts, node.action_map))
      n == Len(entries)
      strip_end == strip_prefix(entries, node.category)
      keep_index_relative == find_first_keep_index(SubSeq(entries, strip_end + 1, n))
      keep_index == IF keep_index_relative = 0 THEN 0 ELSE strip_end + keep_index_relative
      flip == first_explicit_disaggregate(entries, keep_index)
      \* where the kept section ends
      kept_end == IF keep_index = 0 THEN 0
                  ELSE IF entries[keep_index].folder_action = KEEP_EXCEPT /\ flip # 0
                    THEN flip - 1
                  ELSE n
      kept_parts == IF keep_index = 0 THEN <<>> ELSE Values(entries, keep_index, kept_end)
      disagg_parts == IF keep_index = 0 THEN Values(entries, strip_end + 1, n)
                      ELSE Values(entries, strip_end + 1, keep_index - 1)
                             \o Values(entries, kept_end + 1, n)
      is_default_template == template = template_for(templates, NonexistentKey)
      parts ==
        IF template # <<>> /\ ~is_default_template /\ kept_parts # <<>>
          THEN PathParts(MAIN_TARGET
                           \o << render_template(template, node.metadata, node.category,
                                                 str_join(kept_parts, << "/" >>), name) >>)
        ELSE IF kept_parts # <<>>
          THEN PathParts(MAIN_TARGET \o node.category \o kept_parts \o << name >>)
        ELSE IF template # <<>>
          THEN PathParts(MAIN_TARGET
                           \o << render_template(template, node.metadata, node.category,
                                                 <<>>, name) >>)
        ELSE PathParts(MAIN_TARGET \o node.category \o << name >>)
  IN  [ destination |-> parts,
        source_prefix |-> Values(entries, 1, strip_end),
        disaggregated |-> disagg_parts,
        kept |-> kept_parts ]

\* the metadata keys and values of the model
KeyArtist == << "a", "r", "t", "i", "s", "t" >>
KeyTitle == << "t", "i", "t", "l", "e" >>
KeyYear == << "y", "e", "a", "r" >>

\* FileMetadata.to_dict(): none, an artist that the folder a_b repeats, or all three
NoMetadata == << >>
ArtistOnly == (KeyArtist :> << "A", " ", "b" >>)
FullMetadata ==
  (KeyArtist :> << "A", " ", "b" >>) @@ (KeyTitle :> << "T" >>) @@ (KeyYear :> << "1" >>)

\* Categories._templates: empty, a __default__ template only, or a template of the
\* category Doc without and with a filename reference
NoTemplates == << >>
DefaultOnly == (DefaultKey :> << "{", "y", "e", "a", "r", "}" >>)
ArtistTemplate == (CategoryDoc :> << "{", "a", "r", "t", "i", "s", "t", "|", "n", "a", "}" >>)
TitleTemplate ==
  (CategoryDoc :> << "{", "a", "r", "t", "i", "s", "t", "}", "/",
                     "{", "t", "i", "t", "l", "e", "}" >>)

\* the template tables tried, each with the metadata that make it render differently
Renderings ==
  { << NoTemplates, NoMetadata >>,
    << DefaultOnly, NoMetadata >>, << DefaultOnly, FullMetadata >>,
    << ArtistTemplate, NoMetadata >>, << ArtistTemplate, FullMetadata >>,
    << TitleTemplate, ArtistOnly >>, << TitleTemplate, FullMetadata >> }

\* the files under the source root /s, at most MaxDirs folders deep
MediaPaths ==
  { << DirS >> \o dirs \o << FileName >> :
      dirs \in UNION { [1..n -> DirNames] : n \in 0..MaxDirs } }

\* the folder actions stored for the ancestors of a file; the source root itself
\* has none or KEEP
ActionMaps(physical_path) ==
  { action_map \in [1..(Len(physical_path) - 1) -> {None, KEEP, KEEP_EXCEPT, DISAGGREGATE}] :
      action_map[1] \in {None, KEEP} }

\* a FileNode as FileNodeBuilder.build makes it, and the catalog's templates
InitMedia ==
  /\ CatalogEmpty
  /\ BatchIdle
  /\ CallIdle
  /\ rules = <<>>
  /\ advisor = None
  /\ batch_size = 1
  /\ folder_hashes = EmptyMap
  /\ pc = "build"
  /\ clock = 0
  /\ workers = <<>>
  /\ tasks = <<>>
  /\ step = NoStep
  /\ sem = 0
  /\ throttle_lock = None
  /\ last_request_at = 0
  /\ \E physical_path \in MediaPaths, rendering \in Renderings :
       /\ settings = [templates |-> rendering[1]]
       /\ file_node \in { [ physical_path |-> physical_path, category |-> category,
                            metadata |-> rendering[2], action_map |-> action_map ] :
                           category \in {CategoryDoc, CategoryDocDot},
                           action_map \in ActionMaps(physical_path) }
  /\ destination = <<>>

\* helper.build_destination(node)
BuildDestination ==
  /\ pc = "build"
  /\ destination' = build_destination(file_node, settings.templates)
  /\ pc' = "built"
  /\ UNCHANGED << catalogVars, folder_hashes, configVars, rows, folder_samples,
                  sorted_folders, actions,
                  decisions, calls, persisted_actions, merged_action_map, callVars,
                  serviceVars, file_node >>

NextMedia == BuildDestination

SpecMedia == InitMedia /\ [][NextMedia]_vars

\* small occurs in big, in order (not necessarily side by side)
RECURSIVE OccursInOrder(_, _)
OccursInOrder(small, big) ==
  IF small = <<>> THEN TRUE
  ELSE IF big = <<>> THEN FALSE
  ELSE IF Head(small) = Head(big) THEN OccursInOrder(Tail(small), Tail(big))
  ELSE OccursInOrder(small, Tail(big))

\* the first ancestor after the stripped prefix that is labelled KEEP or KEEP_EXCEPT
\* (an ancestor without a stored action is labelled KEEP), 0 if there is none
KeepPivot ==
  LET after == { i \in (Len(destination.source_prefix) + 1)..Len(file_node.action_map) :
                   file_node.action_map[i] # DISAGGREGATE }
  IN  IF after = {} THEN 0 ELSE CHOOSE i \in after : \A j \in after : i <= j

\* C19: the destination begins with the target root followed by exactly the
\* segments of the file's category, in order
C19_DestinationUnderCategory ==
  pc = "built" =>
    /\ Len(destination.destination) >= 1 + Len(file_node.category)
    /\ SubSeq(destination.destination, 1, 1 + Len(file_node.category))
         = << << "t" >> >> \o file_node.category

\* C20 as the spec states it: for every ancestor with KEEP in the folder-action map,
\* the destination contains, in order, every segment from it down to the file's name
C20_KeptAncestorPreserved ==
  pc = "built" =>
    \A i \in 1..Len(file_node.action_map) :
      file_node.action_map[i] = KEEP =>
        OccursInOrder(SubSeq(file_node.physical_path, i, Len(file_node.physical_path)),
                      destination.destination)

\* C20: for an ancestor with KEEP in the map that the prefix strip does not consume,
\* unless the keep pivot is a KEEP_EXCEPT with an explicit DISAGGREGATE below it: the
\* kept layer ends with every segment from that ancestor down to the containing
\* folder, and, when the category has no template of its own, the destination ends
\* with the kept layer followed by the file's name
C20_KeptAfterPrefixPreserved ==
  pc = "built" =>
    \A i \in (Len(destination.source_prefix) + 1)..Len(file_node.action_map) :
      ( /\ file_node.action_map[i] = KEEP
        /\ ~( /\ file_node.action_map[KeepPivot] = KEEP_EXCEPT
              /\ \E j \in (KeepPivot + 1)..Len(file_node.action_map) :
                   file_node.action_map[j] = DISAGGREGATE ) )
      => /\ str_endswith(destination.kept,
                         SubSeq(file_node.physical_path, i, Len(file_node.action_map)))
         /\ file_node.category \notin DOMAIN settings.templates
              => str_endswith(destination.destination,
                              destination.kept
                                \o << file_node.physical_path[Len(file_node.physical_path)] >>)

\* a folder marked KEEP below a disaggregated one, with a folder under it
C20_Witness ==
  /\ pc = "built"
  /\ file_node.category \notin DOMAIN settings.templates
  /\ Len(file_node.action_map) = 4
  /\ file_node.action_map[2] = DISAGGREGATE
  /\ file_node.action_map[3] = KEEP
  /\ destination.source_prefix = << DirS >>
  /\ destination.disaggregated = SubSeq(file_node.physical_path, 2, 2)
  /\ destination.kept = SubSeq(file_node.physical_path, 3, 4)
  /\ destination.destination
       = << << "t" >> >> \o file_node.category \o destination.kept \o << FileName >>

\* the ancestor at index i of the file's path lies in the kept layer
InKept(i) ==
  /\ KeepPivot # 0
  /\ i >= KeepPivot
  /\ i < KeepPivot + Len(destination.kept)

\* the first ancestor below the keep pivot with DISAGGREGATE in the map, 0 if none
FirstDisaggregateBelowPivot ==
  LET below == { j \in (KeepPivot + 1)..Len(file_node.action_map) :
                   KeepPivot # 0 /\ file_node.action_map[j] = DISAGGREGATE }
  IN  IF below = {} THEN 0 ELSE CHOOSE j \in below : \A k \in below : j <= k

\* C21 as the spec states it: an ancestor with DISAGGREGATE in the folder-action map
\* is never in the kept layer, whatever the other ancestors have
C21_DisaggregateDropped ==
  pc = "built" =>
    \A i \in 1..Len(file_node.action_map) :
      file_node.action_map[i] = DISAGGREGATE => ~InKept(i)

\* C21: an ancestor with DISAGGREGATE in the map is outside the kept layer unless an
\* ancestor above it, below the stripped prefix, is the keep pivot with KEEP (stored,
\* or by default for want of a stored action); and when the category has no template
\* of its own and something is kept, the destination holds nothing but the target,
\* the category, the kept layer and the file's name
C21_DisaggregateDroppedUnlessUnderKeep ==
  pc = "built" =>
    \A i \in 1..Len(file_node.action_map) :
      ( /\ file_node.action_map[i] = DISAGGREGATE
        /\ ~( /\ KeepPivot # 0
              /\ KeepPivot < i
              /\ file_node.action_map[KeepPivot] # KEEP_EXCEPT ) )
      => /\ ~InKept(i)
         /\ ( (file_node.category \notin DOMAIN settings.templates
                 /\ destination.kept # <<>>)
              => destination.destination
                   = PathParts(MAIN_TARGET \o file_node.category) \o destination.kept
                       \o << file_node.physical_path[Len(file_node.physical_path)] >> )

\* two disaggregated folders and nothing kept: the file lands right under its category
C21_Witness ==
  /\ pc = "built"
  /\ settings.templates = NoTemplates
  /\ Len(file_node.action_map) = 3
  /\ file_node.action_map[2] = DISAGGREGATE
  /\ file_node.action_map[3] = DISAGGREGATE
  /\ destination.source_prefix = << DirS >>
  /\ destination.disaggregated = SubSeq(file_node.physical_path, 2, 3)
  /\ destination.kept = <<>>
  /\ destination.destination = << << "t" >> >> \o CategoryDoc \o << FileName >>

\* C22: when the keep pivot A has KEEP_EXCEPT and D is the first ancestor below it
\* with DISAGGREGATE in the map, the kept layer is exactly the segments from A up to
\* but excluding D, and the disaggregated layer is what lies between the stripped
\* prefix and A followed by D and every segment after it, whatever their actions
C22_KeepExceptFlips ==
  ( /\ pc = "built"
    /\ KeepPivot # 0
    /\ file_node.action_map[KeepPivot] = KEEP_EXCEPT
    /\ FirstDisaggregateBelowPivot # 0 )
    => /\ destination.kept
            = SubSeq(file_node.physical_path, KeepPivot, FirstDisaggregateBelowPivot - 1)
       /\ destination.disaggregated
            = SubSeq(file_node.physical_path, Len(destination.source_prefix) + 1,
                     KeepPivot - 1)
                \o SubSeq(file_node.physical_path, FirstDisaggregateBelowPivot,
                          Len(file_node.action_map))

\* KEEP_EXCEPT, then DISAGGREGATE, then KEEP: only the pivot is kept
C22_Witness ==
  /\ pc = "built"
  /\ Len(file_node.action_map) = 4
  /\ file_node.action_map[2] = KEEP_EXCEPT
  /\ file_node.action_map[3] = DISAGGREGATE
  /\ file_node.action_map[4] = KEEP
  /\ destination.source_prefix = << DirS >>
  /\ destination.kept = SubSeq(file_node.physical_path, 2, 2)
  /\ destination.disaggregated = SubSeq(file_node.physical_path, 3, 4)

\* a folder named exactly like the category Doc
DirDocExact == << "D", "o", "c" >>

\* the files under /s whose folders are named Doc, doc or a_b
DedupePaths ==
  { << DirS >> \o dirs \o << FileName >> :
      dirs \in UNION { [1..n -> {DirDocExact, DirDoc, DirAB}] : n \in 0..MaxDirs } }

\* FileNodes of category Doc, without templates and with a template of Doc's own
InitDedupe ==
  /\ CatalogEmpty
  /\ BatchIdle
  /\ CallIdle
  /\ rules = <<>>
  /\ advisor = None
  /\ batch_size = 1
  /\ folder_hashes = EmptyMap
  /\ pc = "build"
  /\ clock = 0
  /\ workers = <<>>
  /\ tasks = <<>>
  /\ step = NoStep
  /\ sem = 0
  /\ throttle_lock = None
  /\ last_request_at = 0
  /\ \E physical_path \in DedupePaths,
        rendering \in { << NoTemplates, NoMetadata >>, << ArtistTemplate, FullMetadata >> } :
       /\ settings = [templates |-> rendering[1]]
       /\ file_node \in { [ physical_path |-> physical_path, category |-> CategoryDoc,
                            metadata |-> rendering[2], action_map |-> action_map ] :
                           action_map \in ActionMaps(physical_path) }
  /\ destination = <<>>

NextDedupe == BuildDestination

SpecDedupe == InitDedupe /\ [][NextDedupe]_vars

\* where the parts hold the segments side by side, compared as written
Occurrences(parts, segments) ==
  { i \in 1..(Len(parts) - Len(segments) + 1) :
      SubSeq(parts, i, i + Len(segments) - 1) = segments }

\* the same, compared without regard to case
OccurrencesLower(parts, segments) ==
  { i \in 1..(Len(parts) - Len(segments) + 1) :
      \A k \in 1..Len(segments) : str_lower(parts[i + k - 1]) = str_lower(segments[k]) }

\* the folders of the file's path: everything but the file's name
SourceFolders == SubSeq(file_node.physical_path, 1, Len(file_node.physical_path) - 1)

\* C23 as the spec states it: when the category's segments occur among the folders
\* of the source path, they occur at most once in the destination
C23_CategoryAtMostOnce ==
  (pc = "built" /\ Occurrences(SourceFolders, file_node.category) # {})
    => Cardinality(Occurrences(destination.destination, file_node.category)) <= 1

\* C23: when the category's segments occur among the folders of the source path
\* only once, right after the source prefix (compared without regard to case), that
\* occurrence is consumed by the prefix strip and the destination holds the
\* category's segments exactly once, right after the target root
C23_LeadingCategoryConsumed ==
  ( /\ pc = "built"
    /\ OccurrencesLower(SourceFolders, file_node.category) = {2} )
    => /\ destination.source_prefix
            = SubSeq(file_node.physical_path, 1, 1 + Len(file_node.category))
       /\ OccurrencesLower(destination.destination, file_node.category) = {2}

\* /s/doc/a_b/f.x with a_b kept: doc is consumed and Doc stands once
C23_Witness ==
  /\ pc = "built"
  /\ settings.templates = NoTemplates
  /\ file_node.physical_path = << DirS, DirDoc, DirAB, FileName >>
  /\ file_node.action_map[3] = KEEP
  /\ destination.source_prefix = << DirS, DirDoc >>
  /\ destination.kept = << DirAB >>
  /\ destination.destination = << << "t" >>, DirDocExact, DirAB, FileName >>

(***************************************************************************)
(* RulesClassifier.match on its own: a rule table in file order, a file to *)
(* match, and the same match once a line is deleted from the rules file.   *)
(***************************************************************************)

MaxRules == 3

\* the lines a rules file is made of: by path and mime, by path, by mime, catch-all
RuleLines ==
  { Rule(Pat("ends", << ".", "c" >>), Pat("starts", << "t" >>), "Code", None, FINAL),
    Rule(Pat("starts", << "/", "a" >>), NoPattern, "Documents", None, AI),
    Rule(NoPattern, Pat("starts", << "t" >>), "Text", None, FINAL),
    Rule(NoPattern, NoPattern, "Unknown", DISAGGREGATE, AI) }

\* _load_rules appends one CompiledRule per line, in the order of the lines
RuleTables == UNION { [1..n -> RuleLines] : n \in 0..MaxRules }

\* the files matched: rel_path with and without a leading slash, or empty (the name
\* is the key then); a mime, or none
MatchRequests ==
  [ name : { << "a", ".", "c" >> },
    rel_path : { <<>>, << "a", ".", "c" >>, << "/", "b" >> },
    mime : { <<>>, << "t" >>, << "i" >> } ]

\* the table without its line j
WithoutRule(table, j) == [i \in 1..(Len(table) - 1) |-> IF i < j THEN table[i] ELSE table[i + 1]]

InitMatch ==
  /\ CatalogEmpty
  /\ BatchIdle
  /\ MediaIdle
  /\ rules \in RuleTables
  /\ advisor = None
  /\ batch_size = 1
  /\ folder_hashes = EmptyMap
  /\ pc = "match"
  /\ request \in MatchRequests
  /\ backend = NoBackend
  /\ response = NoResponse
  /\ outcome = NoOutcome
  /\ clock = 0
  /\ workers = <<>>
  /\ tasks = <<>>
  /\ step = NoStep
  /\ sem = 0
  /\ throttle_lock = None
  /\ last_request_at = 0
  /\ settings = NoSettings

matchFrame ==
  << catalogVars, folder_hashes, advisor, batch_size, rows, folder_samples, sorted_folders,
     actions,
     decisions, calls, persisted_actions, merged_action_map, request, backend, response,
     outcome, clock, workers, tasks, sem, throttle_lock, last_request_at, settings,
     mediaVars >>

\* rules_classifier.match(name, rel_path, mime)
MatchRule ==
  /\ pc = "match"
  /\ step' = [ kind |-> "match",
               index |-> RulesClassifier_match(rules, request.name, request.rel_path,
                                               request.mime) ]
  /\ pc' = "matched"
  /\ UNCHANGED << matchFrame, rules >>

\* line j is deleted from the rules file, a RulesClassifier is made from it
\* (_load_rules) and the same file is matched again
RemoveRule ==
  /\ pc = "matched"
  /\ \E j \in 1..Len(rules) :
       /\ rules' = WithoutRule(rules, j)
       /\ step' = [ kind |-> "rematch", removed |-> j, before |-> step.index,
                    index |-> RulesClassifier_match(rules', request.name,
                                                    request.rel_path, request.mime) ]
  /\ pc' = "rematched"
  /\ UNCHANGED matchFrame

NextMatch == MatchRule \/ RemoveRule

SpecMatch == InitMatch /\ [][NextMatch]_vars

\* the text the rules are matched against: rel_path, else the name, with a leading /
MatchKey ==
  LET key == IF request.rel_path # <<>> THEN request.rel_path ELSE request.name
  IN  IF key[1] = "/" THEN key ELSE << "/" >> \o key

\* line i of the table fits the file: its path pattern, when it has one, matches the
\* key, and its mime pattern, when it has one, matches the mime
Fits(i) ==
  /\ rules[i].path_pattern # NoPattern => RegexMatch(rules[i].path_pattern, MatchKey)
  /\ rules[i].mime_pattern # NoPattern => RegexMatch(rules[i].mime_pattern, request.mime)

\* where the rule matched after the deletion stood before it
PositionBefore ==
  IF step.index >= step.removed THEN step.index + 1 ELSE step.index

\* C24: match returns the first line, in file order, whose path and mime patterns
\* both fit, None when no line fits; and when a line that precedes the matched one
\* is deleted, the file still matches a line, and not one that stood later than the
\* line matched before
C24_FirstMatchWins ==
  /\ step.kind \in {"match", "rematch"} =>
       /\ step.index = 0 => \A i \in 1..Len(rules) : ~Fits(i)
       /\ step.index # 0 =>
            /\ step.index \in 1..Len(rules)
            /\ Fits(step.index)
            /\ \A i \in 1..(step.index - 1) : ~Fits(i)
  /\ (step.kind = "rematch" /\ step.removed < step.before) =>
       /\ step.index # 0
       /\ PositionBefore <= step.before

\* the second of three lines matched; the first, which did not fit, is deleted
C24_Witness ==
  /\ step.kind = "rematch"
  /\ step.before = 2
  /\ step.removed = 1
  /\ step.index = 1
  /\ Len(rules) = 2
  /\ Fits(1)
  /\ Fits(2)

(***************************************************************************)
(* app/orchestrator.py: Orchestrator.main, one run of one mode.            *)
(***************************************************************************)

MaxEndpoints == 2

Modes == {"scan", "classify", "move", "report", "all"}

\* what an endpoint of OLLAMA_URL does: create_ai_classifier raises for it, or its
\* classifier fails the probe of _choose_classifier, or passes it and then passes
\* or fails the probe of main
EndpointKinds ==
  { [created |-> FALSE, first |-> FALSE, second |-> FALSE],
    [created |-> TRUE, first |-> FALSE, second |-> FALSE],
    [created |-> TRUE, first |-> TRUE, second |-> FALSE],
    [created |-> TRUE, first |-> TRUE, second |-> TRUE] }

\* AppConfig: manual needs no endpoint; any other kind has OLLAMA_URL set
\* (__post_init__ raises otherwise)
MainSettings ==
  [ mode : Modes, classifier_kind : {"manual"}, endpoints : { <<>> },
    rules_loaded : BOOLEAN, mover : BOOLEAN ]
  \cup
  [ mode : Modes, classifier_kind : {"ollama"},
    endpoints : UNION { [1..n -> EndpointKinds] : n \in 1..MaxEndpoints },
    rules_loaded : {TRUE}, mover : BOOLEAN ]

\* Orchestrator._choose_classifier: RulesClassifier for manual; else the classifiers
\* that were created and passed the probe, None when there is none (a single one
\* stands for itself, several are multiplexed)
choose_classifier(cfg) ==
  IF cfg.classifier_kind = "manual" THEN "rules"
  ELSE
    LET classifiers == SelectSeq(cfg.endpoints, LAMBDA e : e.created /\ e.first)
    IN  IF classifiers = <<>> THEN None ELSE classifiers

\* classifier.ensure_available() as main calls it: the rules loaded without error;
\* the one classifier's probe; all() over the multiplexer's workers
ensure_available(cfg, classifier) ==
  IF classifier = "rules" THEN cfg.rules_loaded
  ELSE \A i \in 1..Len(classifier) : classifier[i].second

InitMain ==
  /\ CatalogEmpty
  /\ BatchIdle
  /\ CallIdle
  /\ MediaIdle
  /\ rules = <<>>
  /\ advisor = None
  /\ batch_size = 1
  /\ folder_hashes = EmptyMap
  /\ pc = "main"
  /\ clock = 0
  /\ workers = <<>>
  /\ tasks = <<>>
  /\ step = NoStep
  /\ sem = 0
  /\ throttle_lock = None
  /\ last_request_at = 0
  /\ settings \in MainSettings

mainFrame ==
  << catalogVars, folder_hashes, rules, batch_size, rows, folder_samples, sorted_folders,
     actions,
     decisions, persisted_actions, merged_action_map, callVars, clock, workers, tasks,
     sem, throttle_lock, last_request_at, settings, mediaVars >>

\* main: classifier = self._choose_classifier() in the modes classify and all
ChooseClassifier ==
  /\ pc = "main"
  /\ IF settings.mode \in {"classify", "all"}
       THEN advisor' = choose_classifier(settings) /\ pc' = "probe"
       ELSE advisor' = None /\ pc' = "scan"
  /\ UNCHANGED << mainFrame, calls, step >>

\* main: if classifier and not classifier.ensure_available(): return 1
EnsureAvailable ==
  /\ pc = "probe"
  /\ IF advisor # None /\ ~ensure_available(settings, advisor)
       THEN step' = [kind |-> "exit", code |-> 1] /\ pc' = "exited"
       ELSE step' = step /\ pc' = "scan"
  /\ UNCHANGED << mainFrame, advisor, calls >>

\* main: self.scan_paths() in the modes scan and all
ScanPaths ==
  /\ pc = "scan"
  /\ calls' = IF settings.mode \in {"scan", "all"} THEN Append(calls, "scan_paths") ELSE calls
  /\ pc' = "classify"
  /\ UNCHANGED << mainFrame, advisor, step >>

\* main: asyncio.run(self._classify_and_plan(classifier)) in the modes classify and all
ClassifyAndPlan ==
  /\ pc = "classify"
  /\ calls' = IF settings.mode \in {"classify", "all"}
                THEN Append(calls, "classify_and_plan") ELSE calls
  /\ pc' = "move"
  /\ UNCHANGED << mainFrame, advisor, step >>

\* main: self.mover.move_files() in the modes move and all, when there is a mover
MoveFiles ==
  /\ pc = "move"
  /\ calls' = IF settings.mode \in {"move", "all"} /\ settings.mover
                THEN Append(calls, "move_files") ELSE calls
  /\ pc' = "report"
  /\ UNCHANGED << mainFrame, advisor, step >>

\* main: self.write_report() in the modes report and all, then return 0
WriteReport ==
  /\ pc = "report"
  /\ calls' = IF settings.mode \in {"report", "all"}
                THEN Append(calls, "write_report") ELSE calls
  /\ step' = [kind |-> "exit", code |-> 0]
  /\ pc' = "exited"
  /\ UNCHANGED << mainFrame, advisor >>

NextMain ==
  ChooseClassifier \/ EnsureAvailable \/ ScanPaths \/ ClassifyAndPlan \/ MoveFiles
    \/ WriteReport

SpecMain == InitMain /\ [][NextMain]_vars

\* AI is required and no configured endpoint passes the availability probe
NoEndpointAvailable ==
  /\ settings.classifier_kind # "manual"
  /\ settings.mode \in {"classify", "all"}
  /\ \A i \in 1..Len(settings.endpoints) :
       ~(settings.endpoints[i].created /\ settings.endpoints[i].first)

\* C25: in mode classify or all with a non-manual classifier kind, when no endpoint
\* passes its availability probe, main does no scan and no classification work and
\* exits with a code other than 0
C25_AbortsWithoutClassifier ==
  (NoEndpointAvailable /\ pc # "main") =>
    /\ \A i \in 1..Len(calls) : calls[i] \notin {"scan_paths", "classify_and_plan"}
    /\ pc = "exited" => step.code # 0

(***************************************************************************)
(* app/planner.py: the batch of classify_and_plan step by step, from the   *)
(* folder actions to the catalog write, and a run that is interrupted and  *)
(* started again.                                                          *)
(***************************************************************************)

MaxInterrupts == 1

\* CategoryPath(label).parts for the categories of the planner's rule tables
CategoryPathOf(label) ==
  CASE label = "Software" -> << << "S", "o", "f", "t", "w", "a", "r", "e" >> >>
    [] label = "Documents" -> << << "D", "o", "c", "u", "m", "e", "n", "t", "s" >> >>
    [] label = "Code" -> << << "C", "o", "d", "e" >> >>
    [] OTHER -> << << "U", "n", "k", "n", "o", "w", "n" >> >>

\* _folder_actions_for(physical, action_map), as build_destination reads it: the
\* action of each ancestor of the file, None where the map has none
folder_actions_for(parts, action_map) ==
  [ i \in 1..(Len(parts) - 1) |->
      DictGet(action_map, << "/" >> \o str_join(SubSeq(parts, 1, i), << "/" >>)) ]

\* FileNodeBuilder(folder_action_map = merged).build(path, category = ...)
FileNodeBuilder_build(path, category, action_map) ==
  LET parts == NonEmptyParts(str_split(path, "/"))
  IN  [ physical_path |-> parts, category |-> category, metadata |-> NoMetadata,
        action_map |-> folder_actions_for(parts, action_map) ]

InitPlan ==
  /\ clock = 0
  /\ workers = <<>>
  /\ tasks = <<>>
  /\ step = NoStep
  /\ sem = 0
  /\ throttle_lock = None
  /\ last_request_at = 0
  /\ settings = [templates |-> NoTemplates]
  /\ MediaIdle
  /\ CatalogEmpty
  /\ rules \in {RulesMarker, RulesKeepExcept}
  /\ advisor \in {None, "ollama"}
  /\ batch_size \in 1..MaxBatchSize
  /\ folder_hashes = EmptyMap
  /\ pc = "done"
  /\ BatchIdle
  /\ CallIdle

\* build_folder_action_map has returned: the new actions are saved (the batch's
\* first catalog write), merged with the persisted ones and given to the builder
MergeBatch ==
  /\ pc = "resolve"
  /\ sorted_folders = <<>>
  /\ IF DOMAIN actions # {}
       THEN /\ now' = now + 1
            /\ folder_actions' =
                 save_folder_actions(folder_actions,
                                     [f \in DOMAIN actions |-> ActionValue(actions[f])],
                                     decisions, now + 1)
       ELSE UNCHANGED << folder_actions, now >>
  /\ merged_action_map' = MergeActions(persisted_actions, actions)
  /\ pc' = "plan"
  /\ UNCHANGED << files, folder_hashes, configVars, rows, folder_samples, sorted_folders,
                  actions,
                  decisions, calls, persisted_actions, callVars, serviceVars, mediaVars >>

\* one iteration of "for ... in results": the node is built and its destination
\* synthesized (the row's category is what one() returned for it)
PlanFile ==
  /\ pc = "plan"
  /\ Len(tasks) < Len(rows)
  /\ \E row \in { rows[Len(tasks) + 1] } :
     \E category \in { FileCategory(row) } :
     \E node \in { FileNodeBuilder_build(row.path, CategoryPathOf(category),
                                         merged_action_map) } :
     \E classified_path \in { build_destination(node, settings.templates) } :
       /\ file_node' = node
       /\ destination' = classified_path
       /\ tasks' = Append(tasks, [ path |-> row.path, category |-> category,
                                   dest |-> classified_path.destination ])
  /\ UNCHANGED << catalogVars, folder_hashes, configVars, pc, rows, folder_samples,
                  sorted_folders,
                  actions, decisions, calls, persisted_actions, merged_action_map,
                  callVars, clock, workers, step, sem, throttle_lock, last_request_at,
                  settings >>

\* self.db.update_category_dest(updates): the batch's second catalog write
UpdateBatch ==
  /\ pc = "plan"
  /\ Len(tasks) = Len(rows)
  /\ files' = update_category_dest(files,
                [ path \in {tasks[i].path : i \in 1..Len(tasks)} |->
                    LET update == tasks[CHOOSE i \in 1..Len(tasks) : tasks[i].path = path]
                    IN  [category |-> update.category, dest |-> update.dest] ])
  /\ tasks' = <<>>
  /\ file_node' = <<>>
  /\ destination' = <<>>
  /\ pc' = "select"
  /\ UNCHANGED << folder_actions, now, folder_hashes, configVars, rows, folder_samples,
                  sorted_folders,
                  actions, decisions, calls, persisted_actions, merged_action_map,
                  callVars, clock, workers, step, sem, throttle_lock, last_request_at,
                  settings >>

\* the process is killed between the two catalog writes of a batch and the run is
\* started again: the catalog is what was committed, the batch's locals are gone
Interrupt ==
  /\ pc = "plan"
  /\ clock < MaxInterrupts
  /\ clock' = clock + 1
  /\ step' = [kind |-> "interrupt", batch |-> { rows[i].path : i \in 1..Len(rows) }]
  /\ pc' = "select"
  /\ rows' = <<>>
  /\ folder_samples' = <<>>
  /\ sorted_folders' = <<>>
  /\ actions' = EmptyMap
  /\ decisions' = EmptyMap
  /\ calls' = <<>>
  /\ persisted_actions' = EmptyMap
  /\ merged_action_map' = EmptyMap
  /\ tasks' = <<>>
  /\ file_node' = <<>>
  /\ destination' = <<>>
  /\ UNCHANGED << catalogVars, folder_hashes, configVars, callVars, workers, sem, throttle_lock,
                  last_request_at, settings >>

\* the scan of scan_paths comes before classify_and_plan in a run; a run started
\* again after an interruption goes on with what the catalog holds
ScanBeforeRun == clock = 0 /\ Scan

NextPlan ==
  ScanBeforeRun \/ SelectBatch \/ EvaluateFolder \/ MergeBatch \/ PlanFile \/ UpdateBatch
    \/ Interrupt

SpecPlan == InitPlan /\ [][NextPlan]_vars

\* C26: whenever the destination of a file of the batch is synthesized, the batch's
\* folder-action resolution has been through every sampled folder, every action it
\* decided is in the merged map, and the node the destination is synthesized from
\* carries the merged map's actions for the file's ancestors
C26_ResolutionBeforeSynthesis ==
  [][ Len(tasks') > Len(tasks) =>
        /\ sorted_folders = <<>>
        /\ VisitedFolders = SampledFolders
        /\ \A folder \in DOMAIN actions :
             /\ folder \in DOMAIN merged_action_map
             /\ merged_action_map[folder] = actions[folder]
        /\ file_node'.action_map
             = folder_actions_for(file_node'.physical_path, merged_action_map) ]_vars

\* a file planned under a folder whose action this batch decided
C26_Witness ==
  /\ pc = "plan"
  /\ Len(tasks) = 1
  /\ DOMAIN actions # {}
  /\ \E i \in 1..Len(file_node.action_map) :
       /\ file_node.action_map[i] = DISAGGREGATE
       /\ << "/" >> \o str_join(SubSeq(file_node.physical_path, 1, i), << "/" >>)
            \in DOMAIN actions
  /\ destination.destination # <<>>

\* C27: when a run is interrupted between the two catalog writes of a batch and
\* started again, every file of the interrupted batch (none of which had a category
\* at the interruption) has been selected and given a category by the time the
\* restarted run ends
C27_InterruptedBatchReclassified ==
  (step.kind = "interrupt" /\ pc = "done") =>
    \A path \in step.batch : files[path].category # None

(***************************************************************************)
(* app/planner.py: the classification of the files of a batch (one(), the  *)
(* gather over it, and the category each result writes).  The folder       *)
(* actions resolved between the gather and the write do not enter the      *)
(* category (line 250: category_path = response.path or UNKNOWN_CATEGORY). *)
(***************************************************************************)

\* rules.csv lines the tables of this run are made of
OneRuleLines ==
  << Rule(Pat("ends", << ".", "c" >>), NoPattern, "Code", None, FINAL),
     Rule(Pat("ends", << ".", "c" >>), NoPattern, "Software", None, AI),
     Rule(Pat("has", << "/", "d", "/" >>), NoPattern, "Documents", None, AI) >>

\* the rule tables: up to two of the lines, in any order
OneRuleTables ==
  { <<>> }
    \cup { << OneRuleLines[i] >> : i \in 1..Len(OneRuleLines) }
    \cup { << OneRuleLines[ij[1]], OneRuleLines[ij[2]] >> :
             ij \in { pair \in (1..Len(OneRuleLines)) \X (1..Len(OneRuleLines)) :
                        pair[1] # pair[2] } }

\* AppConfig as _ensure_classifier reads it: CLASSIFIER_KIND and the number of
\* endpoints ollama_endpoints() returns (__post_init__ raises for a kind other than
\* manual without OLLAMA_URL)
OneSettings ==
  [classifier_kind : {"manual"}, endpoints : 0..1]
    \cup [classifier_kind : {"ollama"}, endpoints : {1}]

\* what an AI pool's classify answers: a category, or no path (a failure included)
PoolAnswers == {"Documents", "Media", None}

\* Planner._ensure_classifier(current)
ensure_classifier(cfg, current) ==
  IF current # None THEN current
  ELSE IF cfg.classifier_kind = "manual" THEN "rules"
  ELSE IF cfg.endpoints > 0 THEN "ollama"
  ELSE "rules"

\* pool.is_ai(): False for the RulesClassifier, True for the adapters
is_ai(pool) == pool # "rules"

\* Planner._rel_for_classifier(path) for SOURCES = ["/s"] and no wrapper pattern
rel_for_classifier(path) == SubSeq(path, 4, Len(path))

\* a test that lets only a final rule answer by itself
final_rule_only(table, m, pool) == m # 0 /\ table[m].requires_ai = FINAL

\* line 146: rule and (rule.requires_ai == RequiresAI.FINAL or not pool.is_ai())
rule_answers(table, m, pool) ==
  m # 0 /\ (table[m].requires_ai = FINAL \/ ~is_ai(pool))

\* RulesClassifier.classify(name, rel_path, mime, sample, hint).path
RulesClassifier_classify(table, name, rel_path, mime) ==
  LET m == RulesClassifier_match(table, name, rel_path, mime)
  IN  IF m # 0 THEN table[m].category_path ELSE "Unknown"

\* the pool of this run
Pool == ensure_classifier(settings, advisor)

\* the rule self.rules_engine.match gives the file at `path` (0 for None)
RuleOf(path) ==
  RulesClassifier_match(rules, PathName(path), rel_for_classifier(path), files[path].mime)

InitOne ==
  /\ files = Disk
  /\ folder_actions = EmptyMap
  /\ now = 0
  /\ rules \in OneRuleTables
  /\ advisor \in {None, "ollama"}
  /\ batch_size \in 1..MaxBatchSize
  /\ folder_hashes = EmptyMap
  /\ settings \in OneSettings
  /\ pc = "select"
  /\ BatchIdle
  /\ CallIdle
  /\ MediaIdle
  /\ clock = 0
  /\ workers = <<>>
  /\ tasks = <<>>
  /\ step = NoStep
  /\ sem = 0
  /\ throttle_lock = None
  /\ last_request_at = 0

oneFrame ==
  << folder_actions, now, folder_hashes, configVars, folder_samples, sorted_folders, actions,
     decisions,
     persisted_actions, merged_action_map, callVars, clock, workers, sem, throttle_lock,
     last_request_at, settings, mediaVars >>

\* lines 117-129: the next batch; no rows ends the run
OneSelect ==
  /\ pc = "select"
  /\ \E selected \in { select_unclassified(files, folder_actions, batch_size) } :
       /\ rows' = selected
       /\ pc' = IF selected = <<>> THEN "done" ELSE "gather"
  /\ tasks' = <<>>
  /\ step' = [kind |-> "select_batch"]
  /\ UNCHANGED << files, calls >>
  /\ UNCHANGED oneFrame

\* lines 131-201: one() for the next row of the batch.  The rule answers by itself,
\* or pool.classify is called (`calls` logs that call) and answers.
OneFile ==
  /\ pc = "gather"
  /\ Len(tasks) < Len(rows)
  /\ \E row \in { rows[Len(tasks) + 1] } :
     \E m \in { RuleOf(row.path) } :
       IF rule_answers(rules, m, Pool)
         THEN /\ tasks' = Append(tasks, [ path |-> row.path,
                                          response |-> rules[m].category_path,
                                          origin |-> "rules" ])
              /\ step' = [kind |-> "rule", path |-> row.path]
              /\ UNCHANGED calls
         ELSE /\ calls' = Append(calls, row.path)
              /\ step' = [kind |-> "classify", path |-> row.path]
              /\ \E answer \in IF is_ai(Pool)
                                 THEN PoolAnswers
                                 ELSE { RulesClassifier_classify(
                                          rules, PathName(row.path),
                                          rel_for_classifier(row.path), row.mime) } :
                   tasks' = Append(tasks, [ path |-> row.path, response |-> answer,
                                            origin |-> Pool ])
  /\ UNCHANGED << files, rows, pc >>
  /\ UNCHANGED oneFrame

\* lines 237-305: every result gives its row the category response.path or
\* UNKNOWN_CATEGORY, and update_category_dest writes the batch
OneWrite ==
  /\ pc = "gather"
  /\ Len(tasks) = Len(rows)
  /\ files' = update_category_dest(files,
                [ path \in {tasks[k].path : k \in 1..Len(tasks)} |->
                    LET result == tasks[CHOOSE k \in 1..Len(tasks) : tasks[k].path = path]
                    IN  [ category |-> IF result.response = None THEN "Unknown"
                                       ELSE result.response,
                          dest |-> "planned" ] ])
  /\ pc' = "select"
  /\ step' = [kind |-> "write"]
  /\ UNCHANGED << rows, tasks, calls >>
  /\ UNCHANGED oneFrame

NextOne == OneSelect \/ OneFile \/ OneWrite

SpecOne == InitOne /\ [][NextOne]_vars

\* the rule answers for the file at `path`: it is final, or the pool is rules-only
RuleDecides(path) ==
  LET m == RuleOf(path)
  IN  m # 0 /\ (rules[m].requires_ai = FINAL \/ Pool = "rules")

\* C28: a file whose rule is final, or whose rule matched while the pool is
\* rules-only, gets the rule's category (in its result and in the catalog), and
\* pool.classify is never called for it.
C28_RuleAnswersWithoutPool ==
  \A path \in DOMAIN files :
    RuleDecides(path) =>
      /\ \A k \in 1..Len(calls) : calls[k] # path
      /\ \A k \in 1..Len(tasks) :
           tasks[k].path = path => tasks[k].response = rules[RuleOf(path)].category_path
      /\ files[path].category # None =>
           files[path].category = rules[RuleOf(path)].category_path

\* the run ended: an AI rule answered for a file because the pool is rules-only, a
\* final rule answered for a second file, and a third went to pool.classify
C28_Witness ==
  /\ pc = "done"
  /\ Pool = "rules"
  /\ calls # <<>>
  /\ \E path \in DOMAIN files :
       /\ RuleOf(path) # 0
       /\ rules[RuleOf(path)].requires_ai = AI
       /\ files[path].category = rules[RuleOf(path)].category_path
  /\ \E path \in DOMAIN files :
       /\ RuleOf(path) # 0
       /\ rules[RuleOf(path)].requires_ai = FINAL
       /\ files[path].category = rules[RuleOf(path)].category_path

(***************************************************************************)
(* app/orchestrator.py: scan_paths, one scan after another over a disk     *)
(* that changes in between: the new files are inserted, then               *)
(* compute_folder_hashes reads the catalog in the order it yields rows.    *)
(***************************************************************************)

\* the scans of one history
MaxScans == 2

\* the paths a scan can find:  /a/p/x  /a/p/y  /b/p/x  /b/p/y
TreePaths ==
  { << "/", root, "/", "p", "/", name >> : root \in {"a", "b"}, name \in {"x", "y"} }

\* blake3_hash(p) of a file's content; an empty file gets ""
ContentHashes == { << "1" >>, << "2" >>, <<>> }

\* the row scan_paths inserts for a file with that hash
TreeRow(fhash) ==
  [ size |-> IF fhash = <<>> THEN 0 ELSE 1, mime |-> << "t" >>, hash |-> fhash,
    category |-> None, dest |-> None, status |-> "scanned" ]

InitFolders ==
  /\ ServiceIdle
  /\ MediaIdle
  /\ CatalogEmpty
  /\ rules = <<>>
  /\ advisor = None
  /\ batch_size = 1
  /\ folder_hashes = EmptyMap
  /\ pc = "scan"
  /\ BatchIdle
  /\ CallIdle

foldersFrame ==
  << folder_actions, now, configVars, rows, folder_samples, sorted_folders, actions, decisions, calls,
     persisted_actions, merged_action_map, callVars, workers, tasks, sem,
     throttle_lock, last_request_at, settings, mediaVars >>

\* lines 60-115 of scan_paths: the files found that the catalog does not hold yet are
\* inserted with the hash of their content (INSERT OR IGNORE keeps the old rows)
TreeInsert ==
  /\ pc = "scan"
  /\ clock < MaxScans
  /\ \E found \in SUBSET TreePaths \ { {} } :
     \E content \in [found -> ContentHashes] :
       files' = bulk_insert(files, [path \in found |-> TreeRow(content[path])])
  /\ clock' = clock + 1
  /\ step' = [kind |-> "insert"]
  /\ pc' = "hash"
  /\ UNCHANGED folder_hashes
  /\ UNCHANGED foldersFrame

\* line 119 of scan_paths: compute_folder_hashes, the rows read in some order
TreeHash ==
  /\ pc = "hash"
  /\ \E order \in Orders(HashedFiles(files)) :
       /\ folder_hashes' = compute_folder_hashes(folder_hashes, files, order)
       /\ step' = [kind |-> "hash", order |-> order]
  /\ pc' = "scan"
  /\ UNCHANGED << files, clock >>
  /\ UNCHANGED foldersFrame

NextFolders == TreeInsert \/ TreeHash

SpecFolders == InitFolders /\ [][NextFolders]_vars

\* the folders of the catalog: every ancestor of a file
TreeFolders == UNION { all_ancestors(path) : path \in DOMAIN files }

\* the (relative path, file hash) pairs of the files below a folder
Pairs(folder) ==
  { << relative_to(path, folder), files[path].hash >> :
      path \in { q \in DOMAIN files : folder \in all_ancestors(q) } }

\* C29: once compute_folder_hashes has run, two folders whose files form the same set
\* of (relative path, file hash) pairs have the same folder_hash, which is the one any
\* other order of reading gives, and select_duplicate_folders returns them in one
\* group.
C29_SamePairsSameHash ==
  step.kind = "hash" =>
    /\ \A folder \in TreeFolders :
       \A order \in Orders(DOMAIN files) :
         folder_hashes[folder].folder_hash
           = compute_folder_hashes(EmptyMap, files, order)[folder].folder_hash
    /\ \A a \in TreeFolders :
       \A b \in TreeFolders \ {a} :
         Pairs(a) = Pairs(b) =>
           /\ folder_hashes[a].folder_hash = folder_hashes[b].folder_hash
           /\ \E group \in select_duplicate_folders(folder_hashes) :
                {a, b} \subseteq group[2]

\* two folders with the same two files, read x before y under one and y before x
\* under the other, are in one group
C29_Witness ==
  /\ step.kind = "hash"
  /\ \E a \in TreeFolders :
     \E b \in TreeFolders \ {a} :
       /\ Pairs(a) = Pairs(b)
       /\ Cardinality(Pairs(a)) = 2
       /\ \E i \in 1..Len(step.order) :
          \E j \in 1..Len(step.order) :
          \E k \in 1..Len(step.order) :
          \E l \in 1..Len(step.order) :
            /\ a \in all_ancestors(step.order[i]) /\ a \in all_ancestors(step.order[j])
            /\ b \in all_ancestors(step.order[k]) /\ b \in all_ancestors(step.order[l])
            /\ relative_to(step.order[i], a) = relative_to(step.order[k], b)
            /\ relative_to(step.order[j], a) = relative_to(step.order[l], b)
            /\ i < j
            /\ l < k
       /\ \E group \in select_duplicate_folders(folder_hashes) : {a, b} \subseteq group[2]

(***************************************************************************)
(* The status of a catalog row over a run (scan, then classify_and_plan).  *)
(***************************************************************************)

\* where a status stands in scanned -> planned -> moved; error is past all of them
StatusRank(status) ==
  CASE status = "scanned" -> 1
    [] status = "planned" -> 2
    [] status = "moved" -> 3
    [] status = "error" -> 4

\* C30: no step moves the status of a row backwards or out of error, and the step
\* that writes the category and destination of a row (a successful classify-and-plan
\* of it) takes its status from scanned to planned.
C30_StatusMovesForward ==
  [][ \A path \in DOMAIN files :
        /\ StatusRank(files'[path].status) >= StatusRank(files[path].status)
        /\ (files[path].category = None /\ files'[path].category # None) =>
             (files[path].status = "scanned" /\ files'[path].status = "planned") ]_vars

\* the step just taken selected a worker (classify up to its await, or a whole
\* advise_folder_action call)
Selects == step'.kind = "select" \/ (step'.kind = "return" /\ step'.call = "advise")

\* the workers out of cooldown with no recorded request and nothing in flight
UnusedAvailable ==
  { i \in 1..Len(workers) : ~InCooldown(workers[i], clock) /\ Unused(workers[i]) }

\* C31: when some available worker has no recorded request and nothing in flight, a
\* selection takes the first such worker, sets its current_weight to 0 and leaves
\* the other workers' weights alone (no weighted round); a selection made when there
\* is none (a weighted one) finds that every worker has been given a request.
C31_UnusedWorkerFirst ==
  [][ Selects =>
        IF UnusedAvailable # {}
          THEN /\ step'.worker \in UnusedAvailable
               /\ \A i \in UnusedAvailable : step'.worker <= i
               /\ workers'[step'.worker].current_weight = 0
               /\ \A i \in 1..Len(workers) :
                    i # step'.worker =>
                      workers'[i].current_weight = workers[i].current_weight
          ELSE \A i \in 1..Len(workers) : Handled(workers[i]) >= 1 ]_vars

\* the second worker has just been given its first request although the first, with
\* one success behind it and out of cooldown, was available too
C31_Witness ==
  /\ step.kind = "select"
  /\ step.worker = 2
  /\ snapshot_requests(workers[2].total) = 0
  /\ workers[2].in_flight = 1
  /\ workers[1].total.success >= 1
  /\ workers[1].in_flight = 0
  /\ ~InCooldown(workers[1], step.now)

\* the workers whose cooldown is not running at the current time
OutOfCooldown ==
  { i \in 1..Len(workers) :
      workers[i].cooldown_until = 0 \/ clock >= workers[i].cooldown_until }

\* those of them that were never used (no request recorded, none in flight) or whose
\* lifetime success rate is at least 40%
Acceptable ==
  { i \in OutOfCooldown :
      \/ workers[i].total.success + workers[i].total.failure + workers[i].in_flight = 0
      \/ /\ workers[i].total.success + workers[i].total.failure > 0
         /\ 10 * workers[i].total.success
              >= 4 * (workers[i].total.success + workers[i].total.failure) }

\* C32: _available_workers returns, in worker order, the workers out of cooldown that
\* were never used or have a lifetime success rate of at least 40% when there is
\* one; otherwise all workers out of cooldown; it raises (returns none here) only
\* when every worker is in cooldown.
C32_AvailableWorkers ==
  \E available \in { available_workers(workers, clock) } :
    /\ SeqToSet(available) = IF Acceptable # {} THEN Acceptable ELSE OutOfCooldown
    /\ \A i \in 1..Len(available) :
       \A j \in 1..Len(available) :
         i < j => available[i] < available[j]
    /\ available = <<>> <=> OutOfCooldown = {}

\* right after a selection, one worker whose cooldown has run out is left out for
\* its success rate while another is returned
C32_Witness ==
  /\ step.kind = "select"
  /\ Acceptable # {}
  /\ OutOfCooldown \ Acceptable # {}
  /\ \E i \in OutOfCooldown \ Acceptable : workers[i].cooldown_until # 0

(***************************************************************************)
(* app/planner.py: the batch loop over a catalog whose paths were written  *)
(* by a scan of a source root as cfg.SOURCES spells it.                    *)
(***************************************************************************)

\* os.path.join(a, b) for a relative b
os_path_join(a, b) == IF str_endswith(a, Slash) THEN a \o b ELSE a \o Slash \o b

\* the file path os.walk(root) yields: dirpath joined with the name, dirpath being
\* the root as given joined with each directory below it
RECURSIVE walk_path(_, _)
walk_path(root, parts) ==
  IF parts = <<>> THEN root ELSE walk_path(os_path_join(root, Head(parts)), Tail(parts))

\* PurePosixPath(path).as_posix() of an absolute path: empty and "." segments go
as_posix(path) == Slash \o str_join(PathParts(<< path >>), Slash)

\* batches that save folder actions the model follows a run for
MaxStamps == 4

\* spellings of the source root /s in SOURCES
SourceRoots ==
  { << "/", "s" >>, << "/", "s", "/" >>, << "/", "s", "/", "." >> }

\* the rows scan_paths inserts for the files of Disk found under `root`
ScannedUnder(root, found) ==
  LET key(path) == walk_path(root, PathParts(<< SubSeq(path, 4, Len(path)) >>))
  IN  [ p \in { key(path) : path \in found } |->
          Disk[CHOOSE path \in found : key(path) = p] ]

\* the catalog as Path() sees it in folders.py
PosixKeys(f) ==
  [ p \in { as_posix(path) : path \in DOMAIN f } |->
      f[CHOOSE path \in DOMAIN f : as_posix(path) = p] ]

InitLoop ==
  /\ ServiceIdle
  /\ MediaIdle
  /\ CallIdle
  /\ BatchIdle
  /\ rules \in { <<>>, RulesKeepExcept }
  /\ advisor = None
  /\ batch_size \in 1..MaxBatchSize
  /\ \E root \in SourceRoots, found \in SUBSET (DOMAIN Disk) \ {{}} :
       /\ files = ScannedUnder(root, found)
       /\ \E order \in Orders(HashedFiles(PosixKeys(files))) :
            folder_hashes = compute_folder_hashes(EmptyMap, PosixKeys(files), order)
  /\ folder_actions = EmptyMap
  /\ now = 0
  /\ pc = "select"

\* the top of "while True": select_unclassified(batch_size), break on no rows, else
\* collect_folder_samples over PurePosixPath(path) of each row
LoopSelect ==
  /\ pc = "select"
  /\ now < MaxStamps
  /\ LET selected == select_unclassified(files, folder_actions, batch_size)
         samples == collect_folder_samples(
                      [ i \in 1..Len(selected) |->
                          [ selected[i] EXCEPT !.path = as_posix(@) ] ])
     IN  IF selected = <<>>
           THEN /\ pc' = "done"
                /\ UNCHANGED << rows, folder_samples, sorted_folders, actions, decisions,
                                calls, persisted_actions, merged_action_map >>
           ELSE /\ pc' = "resolve"
                /\ rows' = selected
                /\ folder_samples' = samples
                /\ persisted_actions' = get_folder_actions(folder_actions)
                /\ sorted_folders' =
                     sorted_by_depth([i \in 1..Len(samples) |-> samples[i].folder])
                /\ actions' = EmptyMap
                /\ decisions' = EmptyMap
                /\ calls' = <<>>
                /\ merged_action_map' = EmptyMap
  /\ UNCHANGED << catalogVars, folder_hashes, configVars, callVars,
                  serviceVars, mediaVars >>

\* the rest of the batch: the new folder actions are saved, each row becomes a
\* FileNode and a ClassificationRecord whose path is physical_path.as_posix(), and
\* update_category_dest writes the records (UPDATE ... WHERE path = ?)
LoopWrite ==
  /\ pc = "resolve"
  /\ sorted_folders = <<>>
  /\ IF DOMAIN actions # {}
       THEN /\ now' = now + 1
            /\ folder_actions' =
                 save_folder_actions(folder_actions,
                                     [f \in DOMAIN actions |-> ActionValue(actions[f])],
                                     decisions, now + 1)
       ELSE UNCHANGED << folder_actions, now >>
  /\ merged_action_map' = MergeActions(persisted_actions, actions)
  /\ files' = update_category_dest(files,
                [ path \in {as_posix(rows[i].path) : i \in 1..Len(rows)} |->
                    [ category |->
                        FileCategory(CHOOSE r \in SeqToSet(rows) : as_posix(r.path) = path),
                      dest |-> "planned" ] ])
  /\ pc' = "select"
  /\ UNCHANGED << folder_hashes, configVars, rows, folder_samples, sorted_folders, actions,
                  decisions,
                  calls, persisted_actions, callVars,
                  serviceVars, mediaVars >>

NextLoop == LoopSelect \/ EvaluateFolder \/ LoopWrite

SpecLoop == InitLoop /\ [][NextLoop]_vars

\* a batch has been selected and written
BatchWritten == pc = "resolve" /\ pc' = "select"

\* C33: every batch writes a non-null category for every row it selected, so the
\* rows select_unclassified returns strictly shrink from batch to batch.
C33_BatchShrinksUnclassified ==
  [][ BatchWritten =>
        /\ \A i \in 1..Len(rows) : files'[rows[i].path].category # None
        /\ Unclassified(files', folder_actions') # Unclassified(files, folder_actions)
        /\ Unclassified(files', folder_actions') \subseteq Unclassified(files, folder_actions)
    ]_vars

\* C34: when classify_and_plan has run to completion, every row with status
\* 'scanned' and a non-null hash has a category and a destination.
C34_DonePlansEveryRow ==
  pc = "done" =>
    \A path \in DOMAIN files :
      (files[path].status = "scanned" /\ files[path].hash # None)
        => (files[path].category # None /\ files[path].dest # None)

(***************************************************************************)
(* app/planner.py: classify_and_plan twice on the same catalog, with the   *)
(* same rules and an advisor whose answer depends on the folder only, the  *)
(* second time with another batch size.                                    *)
(***************************************************************************)

\* the folders of the files of Disk
DiskFolders == UNION { all_ancestors(path) : path \in DOMAIN Disk }

\* advisors that answer each folder the same way whenever asked
SteadyAnswers == [ DiskFolders -> {KEEP, DISAGGREGATE} ]

\* folder_path -> action, as get_folder_actions reads the table
StoredActions(fa) == [ folder \in DOMAIN fa |-> fa[folder].action ]

InitPair ==
  /\ clock = 0
  /\ workers = <<>>
  /\ tasks = <<>>
  /\ sem = 0
  /\ throttle_lock = None
  /\ last_request_at = 0
  /\ settings = [templates |-> NoTemplates]
  /\ MediaIdle
  /\ BatchIdle
  /\ CallIdle
  /\ rules \in {RulesMarker, RulesKeepExcept}
  /\ advisor \in {None, "ollama"}
  /\ batch_size \in 1..MaxBatchSize
  /\ \E found \in SUBSET (DOMAIN Disk) \ {{}}, answers \in SteadyAnswers :
       /\ files = [path \in found |-> Disk[path]]
       /\ (advisor = None => \A folder \in DiskFolders : answers[folder] = KEEP)
       /\ step = [ kind |-> "run", run |-> 1, answers |-> answers, catalog |-> files,
                   first_files |-> EmptyMap, first_actions |-> EmptyMap ]
       /\ \E order \in Orders(HashedFiles(files)) :
            folder_hashes = compute_folder_hashes(EmptyMap, files, order)
  /\ folder_actions = EmptyMap
  /\ now = 0
  /\ pc = "select"

\* one iteration of "for folder in sorted_folders" of build_folder_action_map, the
\* backend doing during the advise call one of what BackendDoes(folder) holds
EvaluateFolderWith(BackendDoes(_)) ==
  /\ pc = "resolve"
  /\ sorted_folders # <<>>
  /\ LET folder == Head(sorted_folders)
         blocking_parent == get_decided_parent(folder, actions)
         folder_sample == folder_samples[SampleIndex(folder_samples, folder)].sample
     IN  IF blocking_parent # <<>>
           THEN UNCHANGED << actions, decisions, calls >>
           ELSE \E outcomes \in BackendDoes(folder) :
                \E decided \in { decide_folder_action(folder, folder_sample,
                                                      ChainEnv(outcomes), SOURCES,
                                                      SOURCE_WRAPPER_REGEX) } :
                      /\ actions' = (folder :> decided.action) @@ actions
                      /\ decisions' = (folder :> decided.decision_source) @@ decisions
                      /\ calls' = calls \o [ i \in 1..Len(decided.calls) |->
                                               [ folder |-> folder,
                                                 classifier |-> decided.calls[i].classifier,
                                                 rule_hint |-> decided.calls[i].request.rule_hint ] ]
  /\ sorted_folders' = Tail(sorted_folders)
  /\ UNCHANGED << catalogVars, folder_hashes, configVars, pc, rows, folder_samples,
                  persisted_actions,
                  merged_action_map, callVars,
                  serviceVars, mediaVars >>

\* the advisor answers what it answers for this folder
SteadyReplies(folder) ==
  { [i \in 1..OLLAMA_RETRIES |-> PostReply(ActionValue(step.answers[folder]))] }

SteadyEvaluateFolder == EvaluateFolderWith(SteadyReplies)

\* the first run has ended: its plan is kept aside and the run is made again from
\* the same catalog with another batch size
RunAgain ==
  /\ pc = "done"
  /\ step.run = 1
  /\ \E other \in (1..MaxBatchSize) \ {batch_size} : batch_size' = other
  /\ step' = [ step EXCEPT !.run = 2, !.first_files = files,
                           !.first_actions = StoredActions(folder_actions) ]
  /\ files' = step.catalog
  /\ folder_actions' = EmptyMap
  /\ now' = 0
  /\ pc' = "select"
  /\ rows' = <<>>
  /\ folder_samples' = <<>>
  /\ sorted_folders' = <<>>
  /\ actions' = EmptyMap
  /\ decisions' = EmptyMap
  /\ calls' = <<>>
  /\ persisted_actions' = EmptyMap
  /\ merged_action_map' = EmptyMap
  /\ UNCHANGED << folder_hashes, rules, advisor, callVars, mediaVars, clock, workers, tasks,
                  sem, throttle_lock, last_request_at, settings >>

NextPair ==
  SelectBatch \/ SteadyEvaluateFolder \/ MergeBatch \/ PlanFile \/ UpdateBatch \/ RunAgain

SpecPair == InitPair /\ [][NextPair]_vars

\* C35: the plan does not depend on the batch size: two runs on the same catalog
\* with the same rules and the same answers, with different batch sizes, end with
\* the same stored folder actions and the same destination for every file.
C35_PlanIndependentOfBatchSize ==
  (pc = "done" /\ step.run = 2) =>
    /\ StoredActions(folder_actions) = step.first_actions
    /\ \A path \in DOMAIN files : files[path].dest = step.first_files[path].dest

(***************************************************************************)
(* app/folder_policy.py: build_folder_action_map with an advisor that may  *)
(* reply any token.                                                        *)
(***************************************************************************)

\* what the backend does during one advise call: it replies the value of a
\* FolderAction member, or a word that is none, or fails every time
AnyReplies(folder) ==
  { [i \in 1..OLLAMA_RETRIES |-> PostReply(ActionValue(FolderAction[a]))] :
      a \in 1..Len(FolderAction) }
    \cup { [i \in 1..OLLAMA_RETRIES |-> PostReply(<< "x" >>)],
           [i \in 1..OLLAMA_RETRIES |-> PostError] }

InitTokens ==
  /\ ServiceIdle
  /\ MediaIdle
  /\ CallIdle
  /\ BatchIdle
  /\ rules \in {RulesMarker, RulesKeepExcept}
  /\ advisor \in {None, "ollama"}
  /\ batch_size \in 1..MaxBatchSize
  /\ \E found \in SUBSET (DOMAIN Disk) \ {{}} :
       /\ files = [path \in found |-> Disk[path]]
       /\ \E order \in Orders(HashedFiles(files)) :
            folder_hashes = compute_folder_hashes(EmptyMap, files, order)
  /\ folder_actions = EmptyMap
  /\ now = 0
  /\ pc = "select"

AnyReplyEvaluateFolder == EvaluateFolderWith(AnyReplies)

NextTokens == SelectBatch \/ AnyReplyEvaluateFolder \/ PlanBatch

SpecTokens == InitTokens /\ [][NextTokens]_vars

\* C36: every action build_folder_action_map records for a folder is KEEP,
\* KEEP_EXCEPT or DISAGGREGATE; the marker value KEEP_PARENT is never a folder's
\* own action, whatever the rules match and whatever the AI replies.
C36_NoKeepParentRecorded ==
  \A folder \in DOMAIN actions : actions[folder] \in {KEEP, KEEP_EXCEPT, DISAGGREGATE}

\* a worker's classify call comes back to the multiplexer
ClassifyComesBack == Len(tasks') < Len(tasks) /\ step'.kind = "return"

\* C37: whenever a worker's classify call fails, the multiplexer records a failure
\* for the worker (failure count, consecutive_failures, cooldown), also when the
\* worker reports the failure by returning a response that carries an error.
C37_ErrorResponseRecordsFailure ==
  [][ (ClassifyComesBack /\ step'.response.error # None)
        => LET before == workers[step'.worker]
               after == workers'[step'.worker]
           IN  /\ after.total.failure = before.total.failure + 1
               /\ after.consecutive_failures = before.consecutive_failures + 1
               /\ after.cooldown_until > clock ]_vars

(***************************************************************************)
(* app/classifiers/multiplexed.py: requests that keep arriving, one after  *)
(* the other, at a multiplexer whose workers have a past; from now on      *)
(* every call succeeds and takes the same time.  A worker that has never   *)
(* failed has the same success rate and the same average latency whatever  *)
(* the number of its successes, so the model stops counting them at        *)
(* StarveCap; the clock stops where every cooldown has expired.            *)
(***************************************************************************)

StarveWorkers == 2
StarveCap == 3
StarveClock == 8

\* what a worker has been through: TRUE a call that returned, FALSE one that raised
Histories == { <<>>, << TRUE >>, << FALSE >>, << TRUE, FALSE, FALSE >>, << TRUE, FALSE >> }

\* the worker after the calls of history, one a second from `at` on
RECURSIVE Replay(_, _, _)
Replay(worker, history, at) ==
  IF history = <<>> THEN worker
  ELSE Replay(IF Head(history) THEN record_success(worker, EqualLatency)
                               ELSE record_failure(worker, EqualLatency, at),
              Tail(history), at + 1)

\* successes beyond StarveCap of a worker that never failed are not counted
forget_old_successes(worker) ==
  IF worker.total.failure = 0 /\ worker.total.success > StarveCap
    THEN [ worker EXCEPT !.total.success = StarveCap,
                         !.total.latency_ms = StarveCap * EqualLatency * 1000 ]
    ELSE worker

InitStarve ==
  /\ MuxRest
  /\ pc = "dispatch"
  /\ clock \in 4..5
  /\ workers \in { [i \in 1..StarveWorkers |-> Replay(Worker(i), past[i], 1)] :
                     past \in [1..StarveWorkers -> Histories] }
  /\ tasks = <<>>
  /\ step = NoStep

\* classify, lines 38-43: _select_worker, in_flight += 1, then the await; when no
\* worker is available the call raises and the next request comes a second later
StarveStarts ==
  /\ pc = "dispatch"
  /\ \E sel \in { select_worker(workers, clock) } :
       IF sel.selected = 0
         THEN /\ step' = [kind |-> "raise", call |-> "classify", now |-> clock]
              /\ clock' = Min(clock + 1, StarveClock)
              /\ UNCHANGED << workers, tasks, pc >>
         ELSE /\ \/ workers[sel.selected].total.failure = 0
                 \/ snapshot_requests(workers[sel.selected].total) < StarveCap
              /\ workers' = [sel.workers EXCEPT ![sel.selected].in_flight = @ + 1]
              /\ tasks' = << [worker |-> sel.selected, started |-> clock] >>
              /\ step' = [ kind |-> "select", call |-> "classify", worker |-> sel.selected,
                           now |-> clock,
                           cooldown_until |-> workers[sel.selected].cooldown_until ]
              /\ pc' = "await"
              /\ UNCHANGED clock
  /\ UNCHANGED muxFrame

\* classify, lines 44-63 and 88-91: the worker's classify returned
StarveReturns ==
  /\ pc = "await"
  /\ workers' = [workers EXCEPT ![tasks[1].worker] =
                   forget_old_successes(release(record_success(@, EqualLatency)))]
  /\ step' = [ kind |-> "return", call |-> "classify", worker |-> tasks[1].worker,
               now |-> clock, raised |-> FALSE,
               response |-> [path |-> "Documents", error |-> None] ]
  /\ tasks' = <<>>
  /\ clock' = Min(clock + EqualLatency, StarveClock)
  /\ pc' = "dispatch"
  /\ UNCHANGED muxFrame

NextStarve == StarveStarts \/ StarveReturns

\* requests keep arriving and every call comes back
SpecStarve == InitStarve /\ [][NextStarve]_vars /\ WF_vars(NextStarve)

\* C38: no worker is excluded forever: as long as requests keep arriving, a worker
\* whose cooldown has expired is selected again after finitely many selections.
C38_NoWorkerExcludedForever ==
  ([]<>(pc = "await")) =>
    \A i \in 1..StarveWorkers :
      []( (pc = "dispatch" /\ ~InCooldown(workers[i], clock))
            => <>(pc = "await" /\ tasks[1].worker = i) )

\* the calls dispatched to worker i that have not come back
OpenCalls(i) == { k \in 1..Len(tasks) : tasks[k].worker = i }

\* C39: under any interleaving of classify and advise_folder_action calls, each
\* worker's in_flight is never negative, is the number of calls dispatched to the
\* worker that have not yet returned, and is 0 once all calls have completed,
\* whether they succeeded or failed.
C39_InFlightCountsOpenCalls ==
  \A i \in 1..Len(workers) :
    /\ workers[i].in_flight >= 0
    /\ workers[i].in_flight = Cardinality(OpenCalls(i))
    /\ tasks = <<>> => workers[i].in_flight = 0

\* two calls are open at one worker, which has failed before
C39_Witness ==
  \E i \in 1..Len(workers) :
    /\ Cardinality(OpenCalls(i)) = 2
    /\ workers[i].in_flight = 2
    /\ workers[i].total.failure >= 1

(***************************************************************************)
(* app/media.py: build_destination over files whose folders include one    *)
(* whose name ends with a colon.                                           *)
(***************************************************************************)

\* a folder name that ends with ":"
DirColon == << "c", ":" >>

\* the files under the source root /s, at most MaxDirs folders deep
LayerPaths ==
  { << DirS >> \o dirs \o << FileName >> :
      dirs \in UNION { [1..n -> DirNames \cup {DirColon}] : n \in 0..MaxDirs } }

\* a FileNode as FileNodeBuilder.build makes it, of a category without template
InitLayers ==
  /\ CatalogEmpty
  /\ BatchIdle
  /\ CallIdle
  /\ rules = <<>>
  /\ advisor = None
  /\ batch_size = 1
  /\ folder_hashes = EmptyMap
  /\ pc = "build"
  /\ clock = 0
  /\ workers = <<>>
  /\ tasks = <<>>
  /\ step = NoStep
  /\ sem = 0
  /\ throttle_lock = None
  /\ last_request_at = 0
  /\ settings = [templates |-> NoTemplates]
  /\ \E physical_path \in LayerPaths :
       file_node \in { [ physical_path |-> physical_path, category |-> CategoryDoc,
                         metadata |-> NoMetadata, action_map |-> action_map ] :
                        action_map \in ActionMaps(physical_path) }
  /\ destination = <<>>

NextLayers == BuildDestination

SpecLayers == InitLayers /\ [][NextLayers]_vars

\* C40: the layers of the ClassifiedPath partition the file's parent directories:
\* every parent segment is in exactly one of source_prefix, disaggregated and kept,
\* source_prefix is an initial run of the path, and kept is a contiguous run that
\* starts at the keep pivot.
C40_LayersPartitionParents ==
  pc = "built" =>
    LET parents == SubSeq(file_node.physical_path, 1, Len(file_node.physical_path) - 1)
        n == Len(parents)
        a == Len(destination.source_prefix)
        k == Len(destination.kept)
        pivot == IF k = 0 THEN n + 1 ELSE KeepPivot
    IN  /\ a + Len(destination.disaggregated) + k = n
        /\ pivot \in (a + 1)..(n + 1)
        /\ pivot + k - 1 <= n
        /\ destination.source_prefix = SubSeq(parents, 1, a)
        /\ destination.kept = SubSeq(parents, pivot, pivot + k - 1)
        /\ destination.disaggregated
             = SubSeq(parents, a + 1, pivot - 1) \o SubSeq(parents, pivot + k, n)

====
